---- MODULE Spec2Model ----
(***************************************************************************)
(* State-machine model of the pretix-secuconnect payment plugin:           *)
(* the webhook handler (WebhookView), the redirect-return handler          *)
(* (ReturnView), the start of a payment (execute_payment) and the gateway  *)
(* client wrappers they call.  The persisted OrderPayment row, the refund  *)
(* rows and the order status are the shared state; gateway responses are   *)
(* inputs of the actions.                                                  *)
(*                                                                         *)
(* Decimal amounts are represented by their integer number of minor        *)
(* currency units.                                                         *)
(***************************************************************************)
EXTENDS Integers, Sequences, FiniteSets, Bags, TLC

(***************************************************************************)
(* enum PaymentStatusSimple (api_client.py 9-40): the integer codes the    *)
(* gateway sends in details.status_simple.                                 *)
(***************************************************************************)
PROCEED == 0
ACCEPTED == 1
AUTHORIZED == 2
DENIED == 3
ISSUE == 4
VOID == 5
ISSUE_RESOLVED == 6
REFUND == 7
CREATED == 8
PAID == 9
PENDING == 10
SUBSCRIPTION_APPROVED == 11
SUBSCRIPTION_DECLINED == 12
ON_HOLD == 13
WAITING_FOR_SHIPMENT == 14

\* PaymentStatusSimple(code) is defined for exactly these codes and raises
\* ValueError for every other one.
PaymentStatusSimple == PROCEED .. WAITING_FOR_SHIPMENT

(***************************************************************************)
(* Bounds of the model.                                                    *)
(***************************************************************************)
\* a code outside the enumeration
UnknownCode == 15
\* the status codes the modelled gateway reports
GatewayCodes == {PROCEED, ACCEPTED, DENIED, ISSUE, VOID, REFUND, PENDING, UnknownCode}
\* payment.amount, the authorized amount, in minor units
Amount == 1000
\* a partially refunded remaining amount reported by checkStatus
PartialRemaining == 700
\* the remaining amounts checkStatus reports
RemainingAmounts == {PartialRemaining, Amount}
\* the (negative) amount of a child refund transaction
ChildAmount == 0 - 300
\* the longest webhook batch
MaxBatch == 2
\* no request is accepted that could leave more refund rows than this
MaxRefunds == 4
\* the host executes no more refunds than this
MaxLocalRefunds == 1

(***************************************************************************)
(* Host constants (pretix OrderPayment / Order) used by the plugin.        *)
(***************************************************************************)
PAYMENT_STATE_CREATED == "created"
PAYMENT_STATE_PENDING == "pending"
PAYMENT_STATE_CONFIRMED == "confirmed"
PAYMENT_STATE_FAILED == "failed"
PAYMENT_STATE_CANCELED == "canceled"
PaymentStates == {PAYMENT_STATE_CREATED, PAYMENT_STATE_PENDING, PAYMENT_STATE_CONFIRMED,
                  PAYMENT_STATE_FAILED, PAYMENT_STATE_CANCELED}
STATUS_PENDING == "n"
STATUS_PAID == "p"

(***************************************************************************)
(* Values.                                                                 *)
(***************************************************************************)
\* Python's None where a transaction object is expected
None == [none |-> TRUE]
\* payment.info_data of a payment whose info column is empty: {}
EmptyInfo == [empty |-> TRUE]
\* the exceptions a gateway call raises (api_client.py 111-123)
Failures == {"RequestException", "SecuconnectException"}
NoExc == "none"
Ok(v) == [ok |-> TRUE, val |-> v]
Raise(e) == [ok |-> FALSE, exc |-> e]

\* ids of the gateway objects of the one checkout attempt
STX == "STX_1"
PTX == "PCI_1"
CTX == "PCI_2"
QTX == "PCI_0"

\* entries of payment_transaction.related_transactions
ChildRef == [id |-> CTX, object |-> "payment.transactions", hierarchy |-> "child"]
ParentRef == [id |-> QTX, object |-> "payment.transactions", hierarchy |-> "parent"]
RelatedLists == {<<>>, <<ChildRef>>}
\* an entry that is no payment transaction
OtherRef == [id |-> "PCU_1", object |-> "payment.customers", hierarchy |-> "child"]
\* lists with entries of other hierarchies and other objects
AllRelatedLists ==
    RelatedLists \cup {<<ParentRef>>, <<OtherRef>>, <<ParentRef, ChildRef>>,
                       <<OtherRef, ParentRef>>}

\* the customer object the gateway puts into every transaction
Customer ==
    [id |-> "PCU_1", object |-> "payment.customers", forename |-> "Ada",
     email |-> "ada@example.org"]

\* a payment transaction as the gateway returns it
Transaction(id, code, related) ==
    [id |-> id, details |-> [status_simple |-> code], related_transactions |-> related,
     customer |-> Customer]
\* the child (refund) transaction as the gateway returns it
ChildTransaction == [id |-> CTX, amount |-> ChildAmount, customer |-> Customer]
\* a smart transaction as the gateway returns it
SmartTransaction(status, transactions) ==
    [id |-> STX, status |-> status, transactions |-> transactions, customer |-> Customer]
SmartStatuses == {"ok", "pending", "failed"}

(***************************************************************************)
(* The database as the handlers see it: the OrderPayment row, the refund   *)
(* rows of the payment and the status of the order.                        *)
(***************************************************************************)
VARIABLES
    payment,        \* the OrderPayment row: [state, info]
    refunds,        \* the OrderRefund rows of the payment, a bag of [info, amount]
    order_status,   \* Order.status
    request,        \* the entries of the webhook request in process still to be handled
    response,       \* the outcome of the last request
    last,           \* what the last handler step did
    applied,        \* the statuses whose action a webhook delivery has applied
    delivered,      \* the state-changing statuses fetched by the deliveries for the
                    \* started payment
    gateway,        \* the gateway's answers to two deliveries in process at once
    procs,          \* the two deliveries in process at once: [pc, pay, res, ...]
    session,        \* request.session["payment_secuconnect_order_secret"] of the
                    \* customer's browser session
    arg,            \* the argument of a call of a function of the gateway client
    ret,            \* the result of the call
    cache           \* the cache of the gateway client: a set of [key, value, timeout]

vars == <<payment, refunds, order_status, request, response, last, applied, delivered,
          gateway, procs, session, arg, ret, cache>>

\* the variables of a call of a function of the gateway client
call == <<arg, ret, cache>>

\* the variables of the checkout
checkout == <<payment, refunds, order_status, request, response, last, applied, delivered,
              gateway, procs, session>>

\* the variables of the deliveries processed at once
conc == <<gateway, procs>>

\* the rows a handler reads and writes
Database == [payment |-> payment, refunds |-> refunds, order_status |-> order_status]

\* the result of (a part of) a handler: the database it leaves, the
\* exception it raises and the side effects it has emitted
Result(db, exc, effects) == [db |-> db, exc |-> exc, effects |-> effects]

(***************************************************************************)
(* Host operations (pretix OrderPayment), called by the plugin.            *)
(***************************************************************************)
\* OrderPayment.confirm(): under the row lock, return when the row is already
\* confirmed; otherwise store state CONFIRMED with the caller's info, then
\* mark the order paid, which raises QuotaExceededException without quota.
confirm(pay, db, quota_ok) ==
    IF db.payment.state = PAYMENT_STATE_CONFIRMED
    THEN Result(db, NoExc, <<"confirm">>)
    ELSE Result([db EXCEPT !.payment = [state |-> PAYMENT_STATE_CONFIRMED, info |-> pay.info],
                           !.order_status = IF quota_ok THEN STATUS_PAID ELSE @],
                IF quota_ok \/ db.order_status = STATUS_PAID
                THEN NoExc ELSE "QuotaExceededException",
                <<"confirm">>)

\* OrderPayment.save(update_fields=["state", "info"])
save(pay, db) == [db EXCEPT !.payment = [state |-> pay.state, info |-> pay.info]]

\* OrderPayment.fail(info=info): under the row lock, only a created or
\* pending row is failed; a falsy info leaves the stored info alone.
fail(db, info) ==
    IF db.payment.state \notin {PAYMENT_STATE_CREATED, PAYMENT_STATE_PENDING}
    THEN db
    ELSE [db EXCEPT !.payment = [state |-> PAYMENT_STATE_FAILED,
                                 info |-> IF info \in {None, EmptyInfo} THEN @.info ELSE info]]

\* what a refund row keeps of the transaction stored as its info: the id
\* and the customer
RefundInfo(info) == [k \in {"id", "customer"} \cap DOMAIN info |-> info[k]]

\* OrderPayment.create_external_refund(amount, info): a new refund row with
\* the info, the JSON text of a transaction
create_external_refund(db, amount, info) ==
    [db EXCEPT !.refunds = @ (+) SetToBag({[info |-> RefundInfo(info), amount |-> amount]})]

(***************************************************************************)
(* Gateway client (api_client.py).                                         *)
(***************************************************************************)
RedactionMarker == "#"

\* JSON values that are not objects: null, a string, a list
JsonString(str) == [str |-> str]
JsonList(list) == [list |-> list]
JsonTags == {"none", "str", "list"}
\* a JSON object, a dict in Python
is_dict(value) == DOMAIN value \cap JsonTags = {}

\* api_client.py 129: transaction_data["customer"].items().  Subscripting
\* None, a string or a list with a key raises TypeError, a dict without the
\* key raises KeyError, and a customer that is no dict has no items.
_customer_items(transaction_data) ==
    IF ~is_dict(transaction_data) THEN Raise("TypeError")
    ELSE IF "customer" \notin DOMAIN transaction_data THEN Raise("KeyError")
    ELSE IF ~is_dict(transaction_data.customer) THEN Raise("AttributeError")
    ELSE Ok(transaction_data.customer)

(***************************************************************************)
(* HTTP exchanges with the gateway (requests.post, requests.request).      *)
(***************************************************************************)
\* a body that is no JSON document
NotJson == [html |-> "Bad Gateway"]
\* the error object of the gateway
ErrorObject == [status |-> "error", error_details |-> "details"]

StatusCodes == {200, 201, 400, 401, 404, 500, 502}
TransportFailures == {"ConnectionError", "Timeout"}

\* what sending a request gives: no response at all, or a response
HttpOutcomes(bodies) ==
    {Raise(e) : e \in TransportFailures}
    \cup {Ok([status_code |-> c, body |-> b]) : c \in StatusCodes, b \in bodies}

\* Response.raise_for_status()
raise_for_status(r) ==
    IF 400 <= r.status_code /\ r.status_code < 600 THEN Raise("HTTPError") ELSE Ok(r)

\* Response.json()
json(r) == IF r.body = NotJson THEN Raise("JSONDecodeError") ELSE Ok(r.body)

\* the exception of api_client.py 173-182 with the error object it carries
SecuconnectException(error_object) ==
    [ok |-> FALSE, exc |-> "SecuconnectException", error_object |-> error_object]

\* api_client.py 112-115 and 72-75: the error object of a failed exchange;
\* without a response r is unbound and the bare except replaces the NameError
error_object_of(sent, e) ==
    IF sent.ok /\ json(sent.val).ok THEN json(sent.val).val ELSE [exception |-> e]

\* cache.get(key): the value stored under the key, if there is one
cache_get(entries, key) ==
    IF \E entry \in entries : entry.key = key
    THEN [found |-> TRUE, value |-> (CHOOSE entry \in entries : entry.key = key).value]
    ELSE [found |-> FALSE]

\* cache.set(key, value, timeout)
cache_set(entries, key, value, timeout) ==
    {entry \in entries : entry.key # key}
    \cup {[key |-> key, value |-> value, timeout |-> timeout]}

TokenKey == "payment_secuconnect_auth_token"

\* api_client.py 61-69: the request of the client-credentials exchange
TokenRequest ==
    [method |-> "POST", endpoint |-> "oauth/token",
     json |-> [grant_type |-> "client_credentials"]]

\* the result of a call of the client: what it returns or raises, the cache
\* it leaves and the requests it has sent
Called(result, entries, sent) == [result |-> result, cache |-> entries, sent |-> sent]

\* api_client.py 81-87: the response of the token endpoint is read.  The
\* subscripts are evaluated before cache.set is called.
_store_auth_token(entries, r, sent) ==
    LET parsed == json(r) IN
    IF ~parsed.ok THEN Called(parsed, entries, sent)
    ELSE IF ~is_dict(parsed.val) THEN Called(Raise("TypeError"), entries, sent)
    ELSE IF {"access_token", "expires_in"} \subseteq DOMAIN parsed.val
    THEN Called(Ok(parsed.val.access_token),
                cache_set(entries, TokenKey, parsed.val.access_token,
                          parsed.val.expires_in),
                sent)
    ELSE Called(Raise("KeyError"), entries, sent)

\* Variant of _get_auth_token: the token is requested whatever the cache holds.
_get_auth_token_uncached(entries, exchange) ==
    IF ~exchange.ok THEN Called(exchange, entries, <<TokenRequest>>)
    ELSE IF ~raise_for_status(exchange.val).ok
    THEN Called(raise_for_status(exchange.val), entries, <<TokenRequest>>)
    ELSE _store_auth_token(entries, exchange.val, <<TokenRequest>>)

\* api_client.py 55-87; exchange is what the POST to the token endpoint
\* gives if it is sent
_get_auth_token(entries, exchange) ==
    LET token == cache_get(entries, TokenKey) IN
    IF token.found /\ token.value # ""
    THEN Called(Ok(token.value), entries, <<>>)
    ELSE IF ~exchange.ok THEN Called(exchange, entries, <<TokenRequest>>)
    ELSE IF ~raise_for_status(exchange.val).ok
    THEN Called(raise_for_status(exchange.val), entries, <<TokenRequest>>)
    ELSE _store_auth_token(entries, exchange.val, <<TokenRequest>>)

\* api_client.py 117-123: what the handler of the failed request raises; e is
\* the exception it has caught
_raise_for_error_object(error_object, e) ==
    IF ~is_dict(error_object) THEN Raise("AttributeError")
    ELSE IF /\ "status" \in DOMAIN error_object
            /\ error_object.status = "error"
            /\ "error_details" \in DOMAIN error_object
    THEN SecuconnectException(error_object)
    ELSE Raise(e)

\* api_client.py 98-123; exchange is what the token endpoint gives and
\* answer what the API endpoint gives, if they are asked
_perform_request(entries, method, endpoint, exchange, answer) ==
    LET auth == _get_auth_token(entries, exchange)
        sent == auth.sent \o <<[method |-> method, endpoint |-> endpoint,
                                Authorization |-> <<"Bearer", auth.result.val>>]>>
    IN
    IF ~auth.result.ok THEN auth
    ELSE IF ~answer.ok
    THEN Called(_raise_for_error_object(error_object_of(answer, answer.exc), answer.exc),
                auth.cache, sent)
    ELSE IF ~raise_for_status(answer.val).ok
    THEN Called(_raise_for_error_object(error_object_of(answer, "HTTPError"), "HTTPError"),
                auth.cache, sent)
    \* 110: a body that is no JSON; whether or not the handler at 111 catches
    \* the decoding error, it is the exception that leaves the function
    ELSE IF ~json(answer.val).ok
    THEN Called(_raise_for_error_object(error_object_of(answer, "JSONDecodeError"),
                                        "JSONDecodeError"),
                auth.cache, sent)
    ELSE Called(json(answer.val), auth.cache, sent)

\* Variant of _scrub_customer_data: the data is returned as it came.
_scrub_customer_data_unscrubbed(transaction_data) == transaction_data

\* Variant of _scrub_customer_data: only the id is kept.
_scrub_customer_data_keeping_id(transaction_data) ==
    LET items == _customer_items(transaction_data) IN
    IF items.ok
    THEN [transaction_data EXCEPT !.customer =
             [k \in DOMAIN items.val |->
                 IF k = "id" THEN items.val[k] ELSE RedactionMarker]]
    ELSE transaction_data

\* api_client.py 125-133; the three exceptions the reading of the items can
\* raise are caught at 131-132 and the data is returned as it came
_scrub_customer_data(transaction_data) ==
    LET items == _customer_items(transaction_data) IN
    IF items.ok
    THEN [transaction_data EXCEPT !.customer =
             [k \in DOMAIN items.val |->
                 IF k \in {"id", "object"} THEN items.val[k] ELSE RedactionMarker]]
    ELSE transaction_data

\* api_client.py 135-138; r is the outcome of the GET
fetch_smart_transaction_info(r) ==
    IF r.ok THEN Ok(_scrub_customer_data(r.val)) ELSE r

\* api_client.py 140-143
fetch_payment_transaction_info(r) ==
    IF r.ok THEN Ok(_scrub_customer_data(r.val)) ELSE r

\* api_client.py 145-148
fetch_payment_transaction_status(r) == r

\* api_client.py 153-160; r is the outcome of the POST, a list of transactions
cancel_payment_transaction(r) ==
    IF r.ok THEN Ok([i \in 1..Len(r.val) |-> _scrub_customer_data(r.val[i])]) ELSE r

\* payment.py 329-331: float(cents) / 10**places rounded to the currency's
\* places; on the minor-unit representation of decimals this is the number
\* of minor units itself
amount_to_decimal(cents) == cents

abs(x) == IF x < 0 THEN 0 - x ELSE x

(***************************************************************************)
(* The gateway's answers to the calls of one webhook notification: the     *)
(* payment transaction, its checkStatus and the child transaction.         *)
(***************************************************************************)
NotCalled == Raise("not called")

CheckOutcomes(code) ==
    IF code \in {ISSUE, REFUND, VOID}
    THEN {Ok([amount |-> a]) : a \in RemainingAmounts} \cup {Raise(e) : e \in Failures}
    ELSE {NotCalled}

ChildOutcomes(related) ==
    IF \E i \in 1..Len(related) : related[i] = ChildRef
    THEN {Ok(ChildTransaction)} \cup {Raise(e) : e \in Failures}
    ELSE {NotCalled}

\* whether the order's quota is still available matters to confirm() only
QuotaOutcomes(code) == IF code = ACCEPTED THEN BOOLEAN ELSE {TRUE}

\* the answers to the calls of a notification whose transaction lists one
\* of the lists as its related transactions
EntryInputsOf(id, lists) ==
    {[tx |-> Raise(e), check |-> NotCalled, child |-> NotCalled, quota_ok |-> TRUE] :
        e \in Failures}
    \cup UNION {UNION {{[tx |-> Ok(Transaction(id, code, related)), check |-> ck,
                         child |-> ch, quota_ok |-> q] :
                            ck \in CheckOutcomes(code), ch \in ChildOutcomes(related),
                            q \in QuotaOutcomes(code)} :
                       related \in lists} :
                code \in GatewayCodes}

EntryInputs(id) == EntryInputsOf(id, RelatedLists)

(***************************************************************************)
(* WebhookView._handle_payment_transaction_update (views.py 190-279).      *)
(* pay is the OrderPayment object the view holds (self.payment), db the    *)
(* rows at the time of the database operation.                             *)
(***************************************************************************)
Dispatched(db, exc, effects, transaction, old_status, acted) ==
    [db |-> db, exc |-> exc, effects |-> effects, transaction |-> transaction,
     old_status |-> old_status, acted |-> acted, check |-> NotCalled]

\* views.py 195-200: the status of the stored snapshot, <<>> for None
old_status_of(info) ==
    IF info.payment_transaction # None
    THEN <<info.payment_transaction.details.status_simple>>
    ELSE <<>>

\* views.py 204: the update was already processed
already_processed(old_status, status) == old_status = <<status>>

\* Variant of dispatch_branch: ACCEPTED confirms a pending payment only.
dispatch_branch_accept_pending_only(status, state) ==
    IF status = ACCEPTED /\ state = PAYMENT_STATE_PENDING
    THEN "confirm"
    ELSE IF status = PENDING /\ state = PAYMENT_STATE_CREATED
    THEN "pending"
    ELSE IF status = DENIED /\ state \in {PAYMENT_STATE_CREATED, PAYMENT_STATE_PENDING}
    THEN "fail"
    ELSE IF status \in {ISSUE, REFUND, VOID} /\ state = PAYMENT_STATE_CONFIRMED
    THEN "refund"
    ELSE "unexpected"

\* Variant of dispatch_branch: PENDING is applied whatever the payment's state.
dispatch_branch_pending_unguarded(status, state) ==
    IF status = ACCEPTED
    THEN "confirm"
    ELSE IF status = PENDING
    THEN "pending"
    ELSE IF status = DENIED /\ state \in {PAYMENT_STATE_CREATED, PAYMENT_STATE_PENDING}
    THEN "fail"
    ELSE IF status \in {ISSUE, REFUND, VOID} /\ state = PAYMENT_STATE_CONFIRMED
    THEN "refund"
    ELSE "unexpected"

\* Variant of dispatch_branch: ACCEPTED confirms a created payment only.
dispatch_branch_accept_created_only(status, state) ==
    IF status = ACCEPTED /\ state = PAYMENT_STATE_CREATED
    THEN "confirm"
    ELSE IF status = PENDING /\ state = PAYMENT_STATE_CREATED
    THEN "pending"
    ELSE IF status = DENIED /\ state \in {PAYMENT_STATE_CREATED, PAYMENT_STATE_PENDING}
    THEN "fail"
    ELSE IF status \in {ISSUE, REFUND, VOID} /\ state = PAYMENT_STATE_CONFIRMED
    THEN "refund"
    ELSE "unexpected"

\* Variant of dispatch_branch: ISSUE, REFUND and VOID are checked whatever
\* the payment's state.
dispatch_branch_refund_unguarded(status, state) ==
    IF status = ACCEPTED
    THEN "confirm"
    ELSE IF status = PENDING /\ state = PAYMENT_STATE_CREATED
    THEN "pending"
    ELSE IF status = DENIED /\ state \in {PAYMENT_STATE_CREATED, PAYMENT_STATE_PENDING}
    THEN "fail"
    ELSE IF status \in {ISSUE, REFUND, VOID}
    THEN "refund"
    ELSE "unexpected"

\* views.py 209-245: the branch of the dispatch taken for a new status and
\* the state of the payment object
dispatch_branch(status, state) ==
    IF status = ACCEPTED
    THEN "confirm"
    ELSE IF status = PENDING /\ state = PAYMENT_STATE_CREATED
    THEN "pending"
    ELSE IF status = DENIED /\ state \in {PAYMENT_STATE_CREATED, PAYMENT_STATE_PENDING}
    THEN "fail"
    ELSE IF status \in {ISSUE, REFUND, VOID} /\ state = PAYMENT_STATE_CONFIRMED
    THEN "refund"
    ELSE "unexpected"

\* views.py 191-261: the fetch, the comparison with the stored status and
\* the dispatch on the status and the payment's state
_status_dispatch(pay, db, gw) ==
    LET fetched == fetch_payment_transaction_info(gw.tx)
        info == pay.info
    IN
    IF ~fetched.ok
    THEN Dispatched(db, fetched.exc, <<>>, None, <<>>, FALSE)
    ELSE
    LET transaction == fetched.val
        status == transaction.details.status_simple
    IN
    IF status \notin PaymentStatusSimple
    THEN Dispatched(db, "ValueError", <<>>, transaction, <<>>, FALSE)
    ELSE IF info = EmptyInfo
    THEN Dispatched(db, "KeyError", <<>>, transaction, <<>>, FALSE)
    ELSE IF /\ info.payment_transaction # None
            /\ info.payment_transaction.details.status_simple \notin PaymentStatusSimple
    THEN Dispatched(db, "ValueError", <<>>, transaction, <<>>, FALSE)
    ELSE
    LET old_status == old_status_of(info)
        info1 == [info EXCEPT !.payment_transaction = transaction]
        branch == dispatch_branch(status, pay.state)
    IN
    IF already_processed(old_status, status)
    THEN Dispatched(db, NoExc, <<>>, transaction, old_status, FALSE)
    ELSE IF branch = "confirm"
    THEN Dispatched(confirm([pay EXCEPT !.info = info1], db, gw.quota_ok).db, NoExc,
                    <<"confirm">>, transaction, old_status, TRUE)
    ELSE IF branch = "pending"
    THEN Dispatched(save([state |-> PAYMENT_STATE_PENDING, info |-> info1], db), NoExc,
                    <<"markPending">>, transaction, old_status, TRUE)
    ELSE IF branch = "fail"
    THEN Dispatched(fail(db, info1), NoExc, <<"fail">>, transaction, old_status, TRUE)
    ELSE IF branch = "refund"
    THEN LET payment_status == fetch_payment_transaction_status(gw.check) IN
         IF ~payment_status.ok
         THEN [Dispatched(db, payment_status.exc, <<>>, transaction, old_status, FALSE)
                  EXCEPT !.check = payment_status]
         ELSE LET remaining_amount == amount_to_decimal(payment_status.val.amount) IN
              IF remaining_amount < Amount
              THEN [Dispatched(create_external_refund(db, Amount - remaining_amount, transaction),
                               NoExc, <<"createRefund">>, transaction, old_status, TRUE)
                       EXCEPT !.check = payment_status]
              ELSE [Dispatched(db, NoExc, <<>>, transaction, old_status, TRUE)
                       EXCEPT !.check = payment_status]
    ELSE Dispatched(save([pay EXCEPT !.info = info1], db), NoExc, <<>>,
                    transaction, old_status, TRUE)

\* r.info_data.get("id") of a refund row
RefundInfoId(r) == IF "id" \in DOMAIN r.info THEN r.info.id ELSE "None"

\* views.py 267-279: the loop over related_transactions; known is the
\* dictionary built once before the loop
RECURSIVE _related_loop(_, _, _, _)
_related_loop(refs, known, res, gw) ==
    IF refs = <<>>
    THEN res
    ELSE LET related_ref == Head(refs) IN
         IF /\ related_ref.object = "payment.transactions"
            /\ related_ref.hierarchy = "child"
            /\ related_ref.id \notin known
         THEN LET related == fetch_payment_transaction_info(gw.child) IN
              IF ~related.ok
              THEN [res EXCEPT !.exc = related.exc]
              ELSE _related_loop(Tail(refs), known,
                       [res EXCEPT !.db = create_external_refund(
                                              @, abs(amount_to_decimal(related.val.amount)),
                                              related.val),
                                   !.effects = Append(@, "createRelatedRefund")],
                       gw)
         ELSE _related_loop(Tail(refs), known, res, gw)

\* Variant of _related_scan: no refund is taken as known.
_related_scan_nothing_known(res, gw) ==
    IF res.transaction.related_transactions = <<>>
    THEN res
    ELSE _related_loop(res.transaction.related_transactions, {}, res, gw)

\* views.py 263-279: the related-transaction scan
_related_scan(res, gw) ==
    IF res.transaction.related_transactions = <<>>
    THEN res
    ELSE _related_loop(res.transaction.related_transactions,
                       {RefundInfoId(r) : r \in BagToSet(res.db.refunds)},
                       res, gw)

\* Variant of _handle_payment_transaction_update: the scan is left out when
\* the status was processed already.
_handle_payment_transaction_update_scan_on_change(db, gw) ==
    LET res == _status_dispatch(db.payment, db, gw) IN
    IF res.exc # NoExc \/ already_processed(res.old_status, res.transaction.details.status_simple)
    THEN res
    ELSE _related_scan(res, gw)

\* views.py 190-279, processed without interruption
_handle_payment_transaction_update(db, gw) ==
    LET res == _status_dispatch(db.payment, db, gw) IN
    IF res.exc # NoExc THEN res ELSE _related_scan(res, gw)

(***************************************************************************)
(* ReturnView.get (views.py 88-149).                                       *)
(***************************************************************************)
ReturnActions == {"success", "fail", "abort", "other"}

ReturnInputs ==
    {[smart |-> Raise(e), tx |-> NotCalled, quota_ok |-> TRUE] : e \in Failures}
    \cup {[smart |-> Ok(SmartTransaction(s, <<>>)), tx |-> NotCalled, quota_ok |-> q] :
             s \in SmartStatuses, q \in BOOLEAN}
    \cup {[smart |-> Ok(SmartTransaction(s, <<[id |-> PTX]>>)), tx |-> t, quota_ok |-> q] :
             s \in SmartStatuses, q \in BOOLEAN,
             t \in {Raise(e) : e \in Failures}
                   \cup {Ok(Transaction(PTX, code, related)) :
                            code \in GatewayCodes, related \in RelatedLists}}

Returned(db, exc, effects, transaction, message) ==
    [db |-> db, exc |-> exc, effects |-> effects, transaction |-> transaction,
     message |-> message, calls |-> <<>>, smart |-> None]

\* views.py 91: the guard against a return in another state than created
return_guard_never(state) == FALSE

return_guard(state) == state # PAYMENT_STATE_CREATED

\* the gateway is called only for a payment in state created (views.py 91-96)
ReturnInputsFor(pay) ==
    IF pay.info # EmptyInfo /\ ~return_guard(pay.state)
    THEN ReturnInputs
    ELSE {[smart |-> NotCalled, tx |-> NotCalled, quota_ok |-> TRUE]}

\* Variant of return_branch: action success applies "pending" to every
\* status of the smart transaction but "ok".
return_branch_pending_for_other(action, status) ==
    IF action = "success"
    THEN IF status = "ok" THEN "confirm" ELSE "pending"
    ELSE IF action = "fail" THEN "fail"
    ELSE IF action = "abort" THEN "cancel"
    ELSE "none"

\* views.py 118-147: the branch taken for the action of the URL and the
\* status of the smart transaction
return_branch(action, status) ==
    IF action = "success"
    THEN IF status = "ok" THEN "confirm"
         ELSE IF status = "pending" THEN "pending"
         ELSE "fail"
    ELSE IF action = "fail" THEN "fail"
    ELSE IF action = "abort" THEN "cancel"
    ELSE "none"

\* Variant of return_fetch_failed: the state is stored with the info fetched
\* so far.
return_fetch_failed_saving(pay, db, calls, smart) ==
    [Returned(save([pay EXCEPT !.info =
                       IF smart = None THEN @ ELSE [@ EXCEPT !.smart_transaction = smart]], db),
              NoExc, <<>>, None, TRUE)
        EXCEPT !.calls = calls, !.smart = smart]

\* views.py 108-116: a fetch failed; smart is the smart transaction when it
\* was fetched before the failure
return_fetch_failed(pay, db, calls, smart) ==
    [Returned(db, NoExc, <<>>, None, TRUE) EXCEPT !.calls = calls, !.smart = smart]

\* views.py 88-147: ReturnView.get up to the terminal redirect
_return_get(pay, db, action, gw) ==
    LET info == pay.info IN
    IF info = EmptyInfo
    THEN Returned(db, "KeyError", <<>>, None, FALSE)
    ELSE IF return_guard(pay.state)
    THEN Returned(db, NoExc, <<>>, None, FALSE)
    ELSE
    LET smart_transaction == fetch_smart_transaction_info(gw.smart) IN
    IF ~smart_transaction.ok
    THEN return_fetch_failed(pay, db, <<"fetch_smart_transaction_info">>, None)
    ELSE
    LET has_transactions == smart_transaction.val.transactions # <<>>
        payment_transaction == fetch_payment_transaction_info(gw.tx)
        calls == IF has_transactions
                 THEN <<"fetch_smart_transaction_info", "fetch_payment_transaction_info">>
                 ELSE <<"fetch_smart_transaction_info">>
    IN
    IF has_transactions /\ ~payment_transaction.ok
    THEN return_fetch_failed(pay, db, calls, smart_transaction.val)
    ELSE
    LET info1 == IF has_transactions
                 THEN [smart_transaction |-> smart_transaction.val,
                       payment_transaction |-> payment_transaction.val]
                 ELSE [info EXCEPT !.smart_transaction = smart_transaction.val]
        fetched == IF has_transactions THEN payment_transaction.val ELSE None
        branch == return_branch(action, smart_transaction.val.status)
        done(d, effects) == [Returned(d, NoExc, effects, fetched, FALSE)
                                EXCEPT !.calls = calls, !.smart = smart_transaction.val]
    IN
    IF branch = "confirm"
    THEN done(confirm([pay EXCEPT !.info = info1], db, gw.quota_ok).db, <<"confirm">>)
    ELSE IF branch = "pending"
    THEN done(save([state |-> PAYMENT_STATE_PENDING, info |-> info1], db), <<"markPending">>)
    ELSE IF branch = "fail"
    THEN done(fail(db, info1), <<"fail">>)
    ELSE IF branch = "cancel"
    THEN done(save([state |-> PAYMENT_STATE_CANCELED, info |-> info1], db), <<"cancel">>)
    ELSE done(db, <<>>)

(***************************************************************************)
(* SecuconnectMethod.execute_refund (payment.py 281-311).                  *)
(***************************************************************************)

\* the refund row the host has created for the refund to execute
LocalRefund(info, amount, state) == [info |-> info, amount |-> amount, state |-> state]

\* the rows among the refunds that the host has created to execute them
LocalRefunds(rows) ==
    [r \in {x \in BagToSet(rows) : "state" \in DOMAIN x} |-> CopiesIn(r, rows)]

\* what the gateway answers to the cancel call: the transactions it changed
CancelOutcomes ==
    {Ok(<<Transaction(PTX, code, <<ChildRef>>), ChildTransaction>>) : code \in {ACCEPTED, REFUND}}
    \cup {Ok(<<ChildTransaction>>)}
    \cup {Raise("RequestException"), SecuconnectException(ErrorObject)}

\* payment.py 289-295: the loop over the transactions of the answer; acc is
\* [db, info, refund_info]
RECURSIVE _refund_loop(_, _)
_refund_loop(transactions, acc) ==
    IF transactions = <<>>
    THEN acc
    ELSE LET transaction == Head(transactions) IN
         IF transaction.id = acc.info.payment_transaction.id
         THEN LET info1 == [acc.info EXCEPT !.payment_transaction = transaction] IN
              _refund_loop(Tail(transactions),
                           [acc EXCEPT !.info = info1, !.db.payment.info = info1])
         ELSE _refund_loop(Tail(transactions),
                           [acc EXCEPT !.refund_info = RefundInfo(transaction)])

\* Variant of refund_failed_info: the error object is not kept.
refund_failed_info_dropped(ex) == EmptyInfo

\* payment.py 296-297: refund.info_data = ex.error_object for the exception
\* of the gateway; the refund's info is left empty for any other
refund_failed_info(ex) ==
    IF ex.exc = "SecuconnectException" THEN ex.error_object ELSE EmptyInfo

\* payment.py 281-311; amount is refund.amount, r the outcome of the cancel
\* call.  The result holds the rows with the refund's row as it is left.
execute_refund(db, amount, r) ==
    LET info == db.payment.info
        row(d, refund_info, state) ==
            [d EXCEPT !.refunds = @ (+) SetToBag({LocalRefund(refund_info, amount, state)})]
    IN
    IF info = EmptyInfo
    THEN Result(row(db, EmptyInfo, "created"), "KeyError", <<>>)
    ELSE IF info.payment_transaction = None
    THEN Result(row(db, EmptyInfo, "created"), "TypeError", <<>>)
    ELSE
    LET transactions == cancel_payment_transaction(r) IN
    IF ~transactions.ok
    THEN Result(row(db, refund_failed_info(transactions), "created"),
                "PaymentException", <<>>)
    ELSE LET acc == _refund_loop(transactions.val,
                                 [db |-> db, info |-> info, refund_info |-> EmptyInfo])
         IN Result(row(acc.db, acc.refund_info, "done"), NoExc, <<"done">>)

(***************************************************************************)
(* SecuconnectOrderView.dispatch (views.py 54-72) and the terminal         *)
(* redirect of the return view (views.py 151-173).  Strings that are       *)
(* compared after a conversion are sequences of characters.                *)
(***************************************************************************)
\* the upper-case letter of each lower-case letter of the modelled strings
UpperOf == [a |-> "A", c |-> "C", e |-> "E", f |-> "F"]

\* str.lower()
lower(str) ==
    [i \in 1..Len(str) |->
        IF \E l \in DOMAIN UpperOf : UpperOf[l] = str[i]
        THEN CHOOSE l \in DOMAIN UpperOf : UpperOf[l] = str[i]
        ELSE str[i]]

\* str.upper()
upper(str) ==
    [i \in 1..Len(str) |-> IF str[i] \in DOMAIN UpperOf THEN UpperOf[str[i]] ELSE str[i]]

\* hashlib.sha1(s.encode()).hexdigest(): lower-case hexadecimal digits, here
\* a digit for each character, which is injective on the modelled strings
HexDigit == [a |-> "f", c |-> "1", A |-> "e", C |-> "0"]
sha1_hexdigest(str) == [i \in 1..Len(str) |-> HexDigit[str[i]]]

\* order.secret of the order of the payment, and the secret of another order
OrderSecret == <<"A", "c">>
OtherSecret == <<"c", "a">>
\* request.session.get("payment_secuconnect_order_secret") of a session
\* that holds no marker: None
NoMarker == <<>>

\* the hashes a request's path carries: the one _return_url builds
\* (payment.py 337-347), the same in upper case, the digest of the secret
\* as it is written, and the hash of another order
_return_url_hash(secret) == sha1_hexdigest(lower(secret))
PathHashes ==
    {_return_url_hash(OrderSecret), upper(_return_url_hash(OrderSecret)),
     sha1_hexdigest(OrderSecret), _return_url_hash(OtherSecret)}

\* Variant of dispatch: the order is not looked up and the hash not compared.
dispatch_unchecked(order_exists, secret, hash) == "ok"

\* views.py 54-72
dispatch(order_exists, secret, hash) ==
    IF ~order_exists
    THEN "Http404"
    ELSE IF sha1_hexdigest(lower(secret)) # lower(hash)
    THEN "Http404"
    ELSE "ok"

\* Variant of _redirect_to_order: the session is not compared.
_redirect_to_order_unchecked(marker, db) ==
    [target |-> "presale:event.order", message |-> FALSE,
     paid |-> db.order_status = STATUS_PAID]

\* views.py 151-173; marker is the session's order secret, db the rows
\* after the handler (the order is refreshed from them)
_redirect_to_order(marker, db) ==
    IF marker # OrderSecret
    THEN [target |-> "presale:event.index", message |-> TRUE, paid |-> FALSE]
    ELSE [target |-> "presale:event.order", message |-> FALSE,
          paid |-> db.order_status = STATUS_PAID]

(***************************************************************************)
(* SecuconnectMethod.execute_payment (payment.py 434-469) and redirect     *)
(* (payment.py 471-489).                                                   *)
(***************************************************************************)
\* the payment methods of the provider classes (payment.py 506, 582)
Methods == {"creditcard", "paypal"}

\* payment_links of a started smart transaction
PaymentLinks == [creditcard |-> "https://pay.example/cc", paypal |-> "https://pay.example/pp"]

\* what the gateway puts under payment_links: a link for each method, a
\* link for one method only, null or a list
LinkAnswers ==
    {PaymentLinks, [paypal |-> "https://pay.example/pp"], None, JsonList(<<>>)}

\* the smart transaction the gateway answers the start with
StartedTransaction(links) ==
    SmartTransaction("created", <<>>) @@ [payment_links |-> links]

\* api_client.py 150-151; r is the outcome of the POST
start_smart_transaction(r) ==
    IF r.ok THEN Ok(_scrub_customer_data(r.val)) ELSE r

\* payment.py 461: data["payment_links"][self.method]
_payment_link(data, method) ==
    IF "payment_links" \notin DOMAIN data THEN Raise("KeyError")
    ELSE IF ~is_dict(data.payment_links) THEN Raise("TypeError")
    ELSE IF method \notin DOMAIN data.payment_links THEN Raise("KeyError")
    ELSE Ok(data.payment_links[method])

\* the messages of the payment errors (payment.py 441-444, 449-452, 464-467)
TroubleMessage == "We had trouble communicating with secuconnect."
UnsupportedMessage == "Requested payment method not supported."
NoMessage == ""

\* what execute_payment returns: a location and the signed data of its query
Location(url, data) == [url |-> url, data |-> data]
NoData == [none |-> TRUE]

\* django.core.signing.dumps(obj, salt="safe-redirect")
signing_dumps(obj) == [signed |-> obj, salt |-> "safe-redirect"]

\* Variant of redirect: the link is returned in every session.
redirect_plain(iframe_session, url, marker) == Location(url, NoData)

\* payment.py 471-489; marker is the session's order secret
redirect(iframe_session, url, marker) ==
    IF iframe_session
    THEN Location("plugins:pretix_secuconnect:redirect",
                  signing_dumps([url |-> url,
                                 session |-> [payment_secuconnect_order_secret |-> marker]]))
    ELSE Location(url, NoData)

\* the outcome of execute_payment: the rows and the session it leaves, the
\* exception it raises with its message, the URL it returns
Started(db, marker, exc, message, url, effects) ==
    [db |-> db, session |-> marker, exc |-> exc, message |-> message, url |-> url,
     effects |-> effects]

\* Variant of execute_payment_failed: the payment is left as it is.
execute_payment_failed_unhandled(db, marker) ==
    Started(db, marker, "PaymentException", TroubleMessage, None, <<>>)

\* payment.py 438-453: the start failed with one of the two exceptions of
\* the client; payment.fail(log_data=...) gets no info
execute_payment_failed(db, marker) ==
    Started(fail(db, None), marker, "PaymentException", TroubleMessage, None, <<"fail">>)

\* Variant of execute_payment_link: a missing link leaves no error.
execute_payment_link_unchecked(db, marker, data, method, iframe_session) ==
    LET redirect_url == _payment_link(data, method) IN
    IF redirect_url.ok
    THEN Started(db, marker, NoExc, NoMessage,
                 redirect(iframe_session, redirect_url.val, marker), <<>>)
    ELSE Started(db, marker, NoExc, NoMessage,
                 redirect(iframe_session, "None", marker), <<>>)

\* payment.py 460-469: the link of the method is read from the answer;
\* only KeyError is caught
execute_payment_link(db, marker, data, method, iframe_session) ==
    LET redirect_url == _payment_link(data, method) IN
    IF redirect_url.ok
    THEN Started(db, marker, NoExc, NoMessage,
                 redirect(iframe_session, redirect_url.val, marker), <<>>)
    ELSE IF redirect_url.exc = "KeyError"
    THEN Started(db, marker, "PaymentException", UnsupportedMessage, None, <<>>)
    ELSE Started(db, marker, redirect_url.exc, NoMessage, None, <<>>)

\* payment.py 434-469; marker is the session's order secret before the
\* call, r the outcome of the POST that starts the smart transaction
execute_payment(db, marker, r, method, iframe_session) ==
    LET data == start_smart_transaction(r) IN
    IF ~data.ok
    THEN execute_payment_failed(db, marker)
    ELSE execute_payment_link(
             [db EXCEPT !.payment.info = [smart_transaction |-> data.val,
                                          payment_transaction |-> None]],
             OrderSecret, data.val, method, iframe_session)

(***************************************************************************)
(* The state machine.                                                      *)
(***************************************************************************)
Idle == <<>>

\* the deliveries processed at once
Procs == {1, 2}
NoInput == [tx |-> NotCalled, check |-> NotCalled, child |-> NotCalled, quota_ok |-> TRUE]
NoPayment == [state |-> "none", info |-> EmptyInfo]
NoDelivery == [pc |-> "idle", pay |-> NoPayment, res |-> Dispatched(<<>>, NoExc, <<>>, None, <<>>, FALSE),
               known |-> {}, concurrent |-> FALSE, applied |-> {}]

Step(op, exc, effects, transaction, acted, pre_state, check) ==
    [op |-> op, exc |-> exc, effects |-> effects, transaction |-> transaction,
     acted |-> acted, pre_state |-> pre_state, check |-> check]

InitState ==
    /\ payment = [state |-> PAYMENT_STATE_CREATED, info |-> EmptyInfo]
    /\ refunds = EmptyBag
    /\ order_status = STATUS_PENDING
    /\ request = Idle
    /\ response = "none"
    /\ last = Step("init", NoExc, <<>>, None, FALSE, PAYMENT_STATE_CREATED, NotCalled)
    /\ applied = {}
    /\ delivered = {}
    /\ gateway = NoInput
    /\ procs = [p \in Procs |-> NoDelivery]
    /\ session = NoMarker

Init ==
    /\ InitState
    /\ arg = None
    /\ ret = NotCalled
    /\ cache = {}

\* what a step records of its request or call
Recorded(record, kind, fields) == IF kind \in record THEN fields ELSE <<>>

\* the starts of a specification: what the gateway answers to the start of
\* the smart transaction, the payment methods configured, whether the
\* customer's session is an iframe session, and what the step records
PlainStarts ==
    [responses |-> {Ok(StartedTransaction(PaymentLinks))} \cup {Raise(e) : e \in Failures},
     methods |-> {"creditcard"}, iframes |-> {FALSE}, record |-> {}]
AllStarts ==
    [responses |-> {Ok(StartedTransaction(links)) : links \in LinkAnswers}
                   \cup {Ok(SmartTransaction("created", <<>>))}
                   \cup {Raise(e) : e \in Failures},
     methods |-> Methods, iframes |-> BOOLEAN, record |-> {"start"}]

\* payment.py 434-469: the start of the payment at the gateway
ExecutePayment(starts) ==
    /\ request = Idle
    /\ payment.state = PAYMENT_STATE_CREATED
    /\ payment.info = EmptyInfo
    /\ \E r \in starts.responses, method \in starts.methods,
          iframe_session \in starts.iframes :
          LET res == execute_payment(Database, session, r, method, iframe_session) IN
          /\ payment' = res.db.payment
          /\ session' = res.session
          /\ response' = IF res.exc = NoExc THEN "redirect"
                         ELSE IF res.exc = "PaymentException" THEN res.exc
                         ELSE "error"
          /\ last' = Step("execute_payment", res.exc, res.effects, None, FALSE,
                          payment.state, NotCalled)
                     @@ Recorded(starts.record, "start",
                          [method |-> method, iframe_session |-> iframe_session,
                           started |-> r, url |-> res.url, message |-> res.message])
    /\ UNCHANGED <<refunds, order_status, request, applied, delivered, conc, call>>

\* payment.py 281-311: the host executes a refund of a part of a confirmed
\* payment
ExecuteRefund ==
    /\ request = Idle
    /\ payment.state = PAYMENT_STATE_CONFIRMED
    /\ BagCardinality(refunds) + 1 <= MaxRefunds
    /\ BagCardinality(LocalRefunds(refunds)) + 1 <= MaxLocalRefunds
    /\ \E r \in CancelOutcomes :
          LET res == execute_refund(Database, Amount - PartialRemaining, r) IN
          /\ payment' = res.db.payment
          /\ refunds' = res.db.refunds
          /\ response' = IF res.exc = NoExc THEN "done" ELSE res.exc
          /\ last' = Step("execute_refund", res.exc, res.effects,
                          IF r.ok THEN cancel_payment_transaction(r).val[1] ELSE None,
                          FALSE, payment.state, NotCalled)
                     @@ [cancel |-> r]
    /\ UNCHANGED <<order_status, request, applied, delivered, conc, session, call>>

\* the batches the gateway posts
Entries == {[object |-> o, id |-> PTX] : o \in {"payment.transactions", "payment.subscriptions"}}
Batches == UNION {[1..n -> Entries] : n \in 0..MaxBatch}

\* the requests of a specification: the hashes their paths carry, whether
\* they come with the session of the customer who started the payment or
\* with another one, and what the step records of the request it handled
PlainRequests ==
    [hashes |-> {_return_url_hash(OrderSecret)}, sessions |-> {"same"}, record |-> {},
     batches |-> Batches]
HashRequests ==
    [hashes |-> PathHashes, sessions |-> {"same"}, record |-> {"hash"}, batches |-> Batches]
AllRequests ==
    [hashes |-> PathHashes, sessions |-> {"same", "other"}, record |-> {"hash", "return"},
     batches |-> Batches]
\* notifications of one entry at most, which names the payment's transaction
\* or the child transaction
NamedEntries ==
    {[object |-> o, id |-> id] :
        o \in {"payment.transactions", "payment.subscriptions"}, id \in {PTX, CTX}}
NamedRequests ==
    [hashes |-> {_return_url_hash(OrderSecret)}, sessions |-> {"same"}, record |-> {},
     batches |-> {<<>>} \cup {<<entry>> : entry \in NamedEntries}]
\* notifications of at most one entry
SingleRequests ==
    [hashes |-> {_return_url_hash(OrderSecret)}, sessions |-> {"same"}, record |-> {},
     batches |-> {batch \in Batches : Len(batch) <= 1}]

\* views.py 61-71: dispatch answers not-found and the handler does not run
NotFound(endpoint, order_exists, hash) ==
    /\ response' = "not found"
    /\ last' = Step("dispatch", "Http404", <<>>, None, FALSE, payment.state, NotCalled)
               @@ [endpoint |-> endpoint, order_exists |-> order_exists, hash |-> hash]
    /\ UNCHANGED <<payment, refunds, order_status>>

\* views.py 54-72, 88-173: a request to the return URL
ReturnGet(requests) ==
    /\ request = Idle
    /\ \/ \E order_exists \in BOOLEAN, hash \in requests.hashes :
             /\ dispatch(order_exists, OrderSecret, hash) = "Http404"
             /\ NotFound("return", order_exists, hash)
       \/ \E hash \in requests.hashes, action \in ReturnActions,
             gw \in ReturnInputsFor(payment), sess \in requests.sessions :
             LET res == _return_get(payment, Database, action, gw)
                 marker == IF sess = "same" THEN session ELSE NoMarker
                 terminal == _redirect_to_order(marker, res.db)
                 step == Step("return", res.exc, res.effects, res.transaction, FALSE,
                              payment.state, NotCalled)
             IN
             /\ dispatch(TRUE, OrderSecret, hash) = "ok"
             /\ payment' = res.db.payment
             /\ refunds' = res.db.refunds
             /\ order_status' = res.db.order_status
             /\ response' = IF res.exc # NoExc THEN "error" ELSE "redirect"
             /\ last' = step
                        @@ Recorded(requests.record, "hash", [hash |-> hash])
                        @@ Recorded(requests.record, "return",
                             [action |-> action, calls |-> res.calls,
                              smart |-> res.smart, marker |-> marker,
                              target |-> IF res.exc # NoExc THEN "none" ELSE terminal.target,
                              paid |-> res.exc = NoExc /\ terminal.paid,
                              message |-> \/ res.message
                                          \/ (res.exc = NoExc /\ terminal.message)])
    /\ UNCHANGED <<request, applied, delivered, conc, session, call>>

\* views.py 54-72, 178-180: a webhook request arrives and its body is parsed
WebhookPost(requests) ==
    /\ request = Idle
    /\ \/ \E order_exists \in BOOLEAN, hash \in requests.hashes :
             /\ dispatch(order_exists, OrderSecret, hash) = "Http404"
             /\ NotFound("webhook", order_exists, hash)
             /\ request' = request
       \/ \E hash \in requests.hashes, batch \in requests.batches :
             /\ dispatch(TRUE, OrderSecret, hash) = "ok"
             /\ BagCardinality(refunds) + 2 * Len(batch) <= MaxRefunds
             /\ request' = batch
             /\ response' = IF batch = <<>> THEN "ok" ELSE "pending"
             /\ last' = Step("post", NoExc, <<>>, None, FALSE, payment.state, NotCalled)
                        @@ Recorded(requests.record, "hash", [hash |-> hash])
             /\ UNCHANGED <<payment, refunds, order_status>>
    /\ UNCHANGED <<applied, delivered, conc, session, call>>

\* views.py 188 after the last entry, the next iteration otherwise
Advance ==
    /\ request' = Tail(request)
    /\ response' = IF Tail(request) = <<>> THEN "ok" ELSE response

StatusActions == {"confirm", "markPending", "fail", "createRefund"}

\* the status actions among the effects that were applied to the rows db:
\* under the row lock confirm() does nothing to a confirmed payment and
\* fail() nothing to a payment neither created nor pending
AppliedActions(effects, db) ==
    {e \in {effects[i] : i \in 1..Len(effects)} \cap StatusActions :
        /\ e = "confirm" => db.payment.state # PAYMENT_STATE_CONFIRMED
        /\ e = "fail" => db.payment.state \in {PAYMENT_STATE_CREATED, PAYMENT_STATE_PENDING}}

\* the statuses whose row of the dispatch changes the payment's state
StateChanging == {ACCEPTED, PENDING, DENIED}

\* views.py 180-188: one iteration of the loop over the batch; history names
\* the history variables the specification keeps and the lists of related
\* transactions its notifications draw from
WebhookEntry(history) ==
    /\ request # Idle
    /\ UNCHANGED <<conc, session, call>>
    /\ LET event_object == Head(request) IN
       \/ /\ event_object.object # "payment.transactions"
          /\ Advance
          /\ last' = Step("skip", NoExc, <<>>, None, FALSE, payment.state, NotCalled)
          /\ UNCHANGED <<payment, refunds, order_status, applied, delivered>>
       \/ /\ event_object.object = "payment.transactions"
          /\ \E gw \in EntryInputsOf(event_object.id,
                                      IF "related" \in history
                                      THEN AllRelatedLists
                                      ELSE IF "unrelated" \in history
                                      THEN {<<>>} ELSE RelatedLists) :
                LET res == _handle_payment_transaction_update(Database, gw)
                    status == res.transaction.details.status_simple
                IN
                /\ payment' = res.db.payment
                /\ refunds' = res.db.refunds
                /\ order_status' = res.db.order_status
                /\ IF res.exc # NoExc
                   THEN /\ request' = Idle
                        /\ response' = "error"
                   ELSE Advance
                /\ last' = Step("update", res.exc, res.effects, res.transaction,
                                res.acted, payment.state, res.check)
                /\ applied' = IF /\ "applied" \in history
                                 /\ AppliedActions(res.effects, Database) # {}
                              THEN applied \cup {status} ELSE applied
                /\ delivered' = IF /\ "delivered" \in history
                                   /\ res.transaction # None
                                   /\ payment.info # EmptyInfo
                                THEN delivered \cup ({status} \cap StateChanging)
                                ELSE delivered

Next ==
    \/ ExecutePayment(PlainStarts)
    \/ ReturnGet(PlainRequests)
    \/ WebhookPost(PlainRequests)
    \/ WebhookEntry({})

Spec == Init /\ [][Next]_vars

\* the same machine with the history of the applied status actions
NextApplied ==
    \/ ExecutePayment(PlainStarts)
    \/ ReturnGet(PlainRequests)
    \/ WebhookPost(PlainRequests)
    \/ WebhookEntry({"applied"})

SpecApplied == Init /\ [][NextApplied]_vars

(***************************************************************************)
(* Two deliveries of one notification processed at once.  Each is a        *)
(* request with one payment.transactions entry; the steps are the          *)
(* database operations of the handler, and the gateway gives both the      *)
(* same answers.                                                           *)
(***************************************************************************)
AllIdle == \A p \in Procs : procs[p].pc = "idle"

\* the gateway posts the notification of a started payment twice
ConcurrentPost ==
    /\ AllIdle
    /\ request = Idle
    /\ payment.info # EmptyInfo
    /\ \E gw \in EntryInputs(PTX) : gateway' = gw
    /\ procs' = [p \in Procs |-> [NoDelivery EXCEPT !.pc = "started"]]
    /\ UNCHANGED <<session, call, payment, refunds, order_status, request, response, last, applied,
                   delivered>>

\* views.py 74-80, 191: self.pprov loads self.payment, once per request
Load(p) ==
    /\ procs[p].pc = "started"
    /\ procs' = [procs EXCEPT ![p].pc = "loaded",
                              ![p].pay = payment,
                              ![p].concurrent = \E q \in Procs \ {p} : procs[q].pc = "loaded"]
    /\ UNCHANGED <<session, call, payment, refunds, order_status, request, response, last, applied,
                   delivered, gateway>>

\* views.py 191-261 on the loaded payment object and the rows as they are now
Dispatch(p) ==
    /\ procs[p].pc = "loaded"
    /\ LET res == _status_dispatch(procs[p].pay, Database, gateway) IN
       /\ payment' = res.db.payment
       /\ refunds' = res.db.refunds
       /\ order_status' = res.db.order_status
       /\ procs' = [procs EXCEPT ![p].pc = IF res.exc # NoExc THEN "done" ELSE "dispatched",
                                 ![p].res = [res EXCEPT !.db = <<>>],
                                 ![p].applied = AppliedActions(res.effects, Database)]
    /\ UNCHANGED <<session, call, request, response, last, applied, delivered, gateway>>

\* views.py 263-266: the refunds known when the scan begins
ScanRead(p) ==
    /\ procs[p].pc = "dispatched"
    /\ procs' = [procs EXCEPT
                   ![p].pc = IF procs[p].res.transaction.related_transactions = <<>>
                             THEN "done" ELSE "scanning",
                   ![p].known = {RefundInfoId(r) : r \in BagToSet(refunds)}]
    /\ UNCHANGED <<session, call, payment, refunds, order_status, request, response, last, applied,
                   delivered, gateway>>

\* views.py 267-279: the loop of the scan
ScanCreate(p) ==
    /\ procs[p].pc = "scanning"
    /\ LET res == _related_loop(procs[p].res.transaction.related_transactions,
                                procs[p].known,
                                [procs[p].res EXCEPT !.db = Database], gateway)
       IN /\ refunds' = res.db.refunds
          /\ procs' = [procs EXCEPT ![p].pc = "done",
                                    ![p].res = [res EXCEPT !.db = <<>>]]
    /\ UNCHANGED <<session, call, payment, order_status, request, response, last, applied, delivered,
                   gateway>>

NextConc ==
    \/ AllIdle /\ ExecutePayment(PlainStarts)
    \/ AllIdle /\ ReturnGet(PlainRequests)
    \/ ConcurrentPost
    \/ \E p \in Procs : Load(p) \/ Dispatch(p) \/ ScanRead(p) \/ ScanCreate(p)

SpecConc == Init /\ [][NextConc]_vars

(***************************************************************************)
(* A return handled while webhook deliveries are handled.  The return      *)
(* handler is the request of process 1: it loads the payment object, and   *)
(* after its calls to the gateway it writes; the entries of the webhook    *)
(* batches are handled in between.  The notifications have at most one     *)
(* entry and their transactions list no related transactions.              *)
(***************************************************************************)
Returning == 1

\* views.py 74-80, 89-96: self.payment is loaded, once per request; without
\* info the handler ends at 90, in another state than created at 96
ReturnLoad ==
    /\ procs[Returning].pc = "idle"
    /\ IF payment.info = EmptyInfo \/ return_guard(payment.state)
       THEN /\ \E action \in ReturnActions, gw \in ReturnInputsFor(payment) :
                  LET res == _return_get(payment, Database, action, gw) IN
                  last' = Step("return", res.exc, res.effects, res.transaction, FALSE,
                               payment.state, NotCalled)
            /\ procs' = procs
       ELSE /\ procs' = [procs EXCEPT ![Returning].pc = "returning",
                                      ![Returning].pay = payment]
            /\ last' = last
    /\ UNCHANGED <<session, call, payment, refunds, order_status, request, response,
                   applied, delivered, gateway>>

\* the answers to the calls of such a return: the payment transaction, when
\* the smart transaction has one, is reported as accepted
RacingInputsFor(pay) ==
    {gw \in ReturnInputsFor(pay) :
        gw.tx.ok => gw.tx.val = Transaction(PTX, ACCEPTED, <<>>)}

\* views.py 91-149 on the loaded payment object and the rows as they are now
ReturnWrite ==
    /\ procs[Returning].pc = "returning"
    /\ \E action \in ReturnActions, gw \in RacingInputsFor(procs[Returning].pay) :
          LET res == _return_get(procs[Returning].pay, Database, action, gw) IN
          /\ payment' = res.db.payment
          /\ refunds' = res.db.refunds
          /\ order_status' = res.db.order_status
          /\ last' = Step("return", res.exc, res.effects, res.transaction, FALSE,
                          procs[Returning].pay.state, NotCalled)
    /\ procs' = [procs EXCEPT ![Returning] = NoDelivery]
    /\ UNCHANGED <<session, call, request, response, applied, delivered, gateway>>

NextRace ==
    \/ ExecutePayment(PlainStarts)
    \/ ReturnLoad
    \/ ReturnWrite
    \/ WebhookPost(SingleRequests)
    \/ WebhookEntry({"unrelated"})

SpecRace == Init /\ [][NextRace]_vars

\* webhook deliveries that name the payment's transaction or the child
\* transaction; the transactions fetched list no related transactions
NextNamed ==
    \/ ExecutePayment(PlainStarts)
    \/ ReturnGet(PlainRequests)
    \/ WebhookPost(NamedRequests)
    \/ WebhookEntry({"unrelated"})

SpecNamed == Init /\ [][NextNamed]_vars

\* webhook deliveries only, with the history of the delivered statuses
NextWebhook ==
    \/ ExecutePayment(PlainStarts)
    \/ WebhookPost(PlainRequests)
    \/ WebhookEntry({"delivered"})

SpecWebhook == Init /\ [][NextWebhook]_vars

\* webhook deliveries whose transactions list related transactions of
\* every kind
NextRelated ==
    \/ ExecutePayment(PlainStarts)
    \/ WebhookPost(PlainRequests)
    \/ WebhookEntry({"related"})

SpecRelated == Init /\ [][NextRelated]_vars

(***************************************************************************)
(* The redaction of the customer of a transaction, applied to every        *)
(* transaction object of a bounded set and once more to its own result.    *)
(***************************************************************************)
\* the values of the keys of a customer map; a key may be missing
CustomerValues ==
    [id |-> {"PCU_1"}, object |-> {"payment.customers"},
     forename |-> {"Ada", RedactionMarker}, email |-> {"ada@example.org"},
     phone |-> {"0123"}]

\* the customer maps: every set of keys with every choice of values
CustomerMaps ==
    UNION {[keys -> UNION {CustomerValues[k] : k \in keys}] : keys \in SUBSET DOMAIN CustomerValues}

Customers ==
    {c \in CustomerMaps : \A k \in DOMAIN c : c[k] \in CustomerValues[k]}

\* customers that are no map
NonMapCustomers == {None, JsonString("PCU_1"), JsonList(<<>>)}

\* the transaction objects handed to _scrub_customer_data
ScrubInputs ==
    {[id |-> PTX, customer |-> c] : c \in Customers \cup NonMapCustomers}
    \cup {[id |-> STX, transactions |-> <<>>, customer |-> c] : c \in Customers \cup NonMapCustomers}
    \cup {[id |-> PTX], [id |-> STX, transactions |-> <<>>]}
    \cup {None, JsonString("ok"), JsonList(<<>>)}

InitScrub ==
    /\ InitState
    /\ arg \in ScrubInputs
    /\ ret = NotCalled
    /\ cache = {}

\* api_client.py 125-133 applied to the argument
Scrub ==
    /\ ret = NotCalled
    /\ ret' = Ok(_scrub_customer_data(arg))
    /\ UNCHANGED <<arg, cache, checkout>>

\* api_client.py 125-133 applied to its own result
ScrubAgain ==
    /\ ret # NotCalled
    /\ arg' = ret.val
    /\ ret' = Ok(_scrub_customer_data(ret.val))
    /\ UNCHANGED <<cache, checkout>>

NextScrub == Scrub \/ ScrubAgain

SpecScrub == InitScrub /\ [][NextScrub]_vars

(***************************************************************************)
(* The calls of the gateway client: the token and an authenticated request,*)
(* with every answer of the gateway of a bounded set.                      *)
(***************************************************************************)
\* the bodies the token endpoint answers with
TokenBodies ==
    {[access_token |-> t, expires_in |-> x] : t \in {"tok_1", "tok_2", ""}, x \in {60, 3600}}
    \cup {[access_token |-> "tok_1"], [expires_in |-> 60], ErrorObject, NotJson, None,
          JsonList(<<>>)}

TokenExchanges == HttpOutcomes(TokenBodies)

\* the token exchanges of the calls of an authenticated request
RequestTokenExchanges ==
    {Ok([status_code |-> 200, body |-> [access_token |-> "tok_1", expires_in |-> 3600]]),
     Ok([status_code |-> 401, body |-> ErrorObject]),
     Raise("ConnectionError")}

\* the bodies an API endpoint answers with
ApiBodies ==
    {NotJson, None, JsonString("Bad Gateway"), JsonList(<<>>),
     ErrorObject, [status |-> "error"], [error_details |-> "details"],
     [status |-> "ok", error_details |-> "details"],
     [id |-> PTX, object |-> "payment.transactions"]}

ApiAnswers == HttpOutcomes(ApiBodies)

\* api_client.py 89-96: the requests of _get and _post
ApiRequests ==
    {[method |-> "GET", endpoint |-> "v2/Payment/Transactions/PCI_1"],
     [method |-> "POST", endpoint |-> "v2/Payment/Transactions/PCI_1/cancel"]}

\* api_client.py 55-87
GetAuthToken ==
    \E exchange \in TokenExchanges :
        LET called == _get_auth_token(cache, exchange) IN
        /\ arg' = [exchange |-> exchange]
        /\ ret' = called
        /\ cache' = called.cache
        /\ UNCHANGED checkout

\* api_client.py 98-123
PerformRequest ==
    \E req \in ApiRequests, exchange \in RequestTokenExchanges, answer \in ApiAnswers :
        LET called == _perform_request(cache, req.method, req.endpoint, exchange, answer) IN
        /\ arg' = [method |-> req.method, endpoint |-> req.endpoint,
                   exchange |-> exchange, answer |-> answer]
        /\ ret' = called
        /\ cache' = called.cache
        /\ UNCHANGED checkout

\* the cache drops the token when its timeout has passed
CacheExpire ==
    /\ cache_get(cache, TokenKey).found
    /\ cache' = {entry \in cache : entry.key # TokenKey}
    /\ arg' = None
    /\ ret' = NotCalled
    /\ UNCHANGED checkout

NextToken == GetAuthToken \/ CacheExpire

SpecToken == Init /\ [][NextToken]_vars

NextRequest == PerformRequest \/ CacheExpire

SpecRequest == Init /\ [][NextRequest]_vars

\* the machine with the refunds the host executes
NextRefund ==
    \/ ExecutePayment(PlainStarts)
    \/ ReturnGet(PlainRequests)
    \/ WebhookPost(PlainRequests)
    \/ WebhookEntry({})
    \/ ExecuteRefund

SpecRefund == Init /\ [][NextRefund]_vars

\* the start of the payment with every answer of the gateway, and the
\* return of the customer
NextStart == ExecutePayment(AllStarts) \/ ReturnGet(PlainRequests)

SpecStart == Init /\ [][NextStart]_vars

\* the return of the customer: requests with any hash and any session
NextReturn == ExecutePayment(PlainStarts) \/ ReturnGet(AllRequests)

SpecReturn == Init /\ [][NextReturn]_vars

\* requests to the two endpoints with any hash
NextDispatch ==
    \/ ExecutePayment(PlainStarts)
    \/ ReturnGet(HashRequests)
    \/ WebhookPost(HashRequests)
    \/ WebhookEntry({})

SpecDispatch == Init /\ [][NextDispatch]_vars

(***************************************************************************)
(* Properties.                                                             *)
(***************************************************************************)
\* the step handles one entry of the webhook request in process
EntryStep == request # Idle

\* the step has fetched a payment transaction with this status
Fetched(code) ==
    /\ last'.op = "update"
    /\ last'.transaction # None
    /\ last'.transaction.details.status_simple = code

\* the status of the stored snapshot's payment transaction, <<>> without one
StoredStatus == IF payment.info = EmptyInfo THEN <<>> ELSE old_status_of(payment.info)

Count(seq, x) == Cardinality({i \in 1..Len(seq) : seq[i] = x})

\* C1: a webhook delivery that fetches ACCEPTED for a created payment whose
\* snapshot holds no payment transaction or one with another status leaves
\* the payment confirmed and invokes confirm exactly once.
C1_AcceptedConfirmsOnce ==
    [][(/\ EntryStep
        /\ payment.state = PAYMENT_STATE_CREATED
        /\ payment.info # EmptyInfo
        /\ StoredStatus # <<ACCEPTED>>
        /\ Fetched(ACCEPTED))
       => (/\ payment'.state = PAYMENT_STATE_CONFIRMED
           /\ Count(last'.effects, "confirm") = 1)]_vars

C1_Witness ==
    /\ last.op = "update"
    /\ last.pre_state = PAYMENT_STATE_CREATED
    /\ last.transaction # None
    /\ last.transaction.details.status_simple = ACCEPTED
    /\ last.effects = <<"confirm">>
    /\ payment.state = PAYMENT_STATE_CONFIRMED

\* C2: the action of a status is applied at most once: a delivery whose
\* status was acted upon by an earlier delivery applies no status action.
C2_AtMostOncePerStatus ==
    [][\A code \in GatewayCodes :
          (EntryStep /\ code \in applied /\ Fetched(code))
          => AppliedActions(last'.effects, Database) = {}]_vars

\* C3: for a confirmed payment a delivery with ISSUE, REFUND or VOID whose
\* status check reports a remaining amount R < Amount creates one refund of
\* Amount - R, and the identical delivery right after it creates none.
C3_PartialRefundOnce ==
    [][\A code \in {ISSUE, REFUND, VOID} :
          (/\ EntryStep
           /\ payment.state = PAYMENT_STATE_CONFIRMED
           /\ Fetched(code)
           /\ last'.check.ok
           /\ amount_to_decimal(last'.check.val.amount) < Amount)
          => IF /\ last.op = "update"
                /\ last.transaction = last'.transaction
                /\ last.check = last'.check
                /\ Count(last.effects, "createRefund") = 1
             THEN Count(last'.effects, "createRefund") = 0
             ELSE /\ Count(last'.effects, "createRefund") = 1
                  /\ LET row == [info |-> RefundInfo(last'.transaction),
                                 amount |-> Amount - amount_to_decimal(last'.check.val.amount)]
                     IN CopiesIn(row, refunds') = CopiesIn(row, refunds) + 1]_vars

\* C4: the status of the stored payment transaction is the last status the
\* status dispatch has acted upon: a step changes it exactly by acting on it.
C4_StoredIsLastActed ==
    [][StoredStatus' = IF last'.op = "update" /\ last'.acted
                       THEN <<last'.transaction.details.status_simple>>
                       ELSE StoredStatus]_vars

\* the state the dispatch table gives for a set of delivered statuses
StateOfSet(S) ==
    IF ACCEPTED \in S THEN PAYMENT_STATE_CONFIRMED
    ELSE IF DENIED \in S THEN PAYMENT_STATE_FAILED
    ELSE IF PENDING \in S THEN PAYMENT_STATE_PENDING
    ELSE PAYMENT_STATE_CREATED

\* C5: after any sequence of webhook deliveries for the started payment its
\* state is a function of the set of statuses delivered.
C5_StateDependsOnSet ==
    payment.info # EmptyInfo => payment.state = StateOfSet(delivered)

C5_Witness ==
    /\ delivered = StateChanging
    /\ last.op = "update"
    /\ last.transaction # None
    /\ last.transaction.details.status_simple = PENDING
    /\ payment.state = PAYMENT_STATE_CONFIRMED

\* C6: two deliveries that loaded the same row while both were in process
\* do not both apply the status action computed from it.
C6_NoDoubleStaleTransition ==
    \A p \in Procs : \A q \in Procs \ {p} :
        ~(/\ procs[p].concurrent
          /\ procs[p].pay = procs[q].pay
          /\ procs[p].applied # {}
          /\ procs[q].applied # {})

\* C7: after the webhook handler has processed a notification the stored
\* payment transaction is the transaction it fetched (the storing of a
\* confirm() for an already confirmed payment is the host's and left out).
C7_SnapshotIsFetched ==
    (/\ last.op = "update"
     /\ last.exc = NoExc
     /\ ~(Count(last.effects, "confirm") > 0 /\ last.pre_state = PAYMENT_STATE_CONFIRMED))
    => (payment.info # EmptyInfo /\ payment.info.payment_transaction = last.transaction)

\* C8: a webhook request is answered "ok" whatever the gateway answered
\* while its entries were processed.
C8_AlwaysOk ==
    (/\ payment.info # EmptyInfo
     /\ last.op \in {"update", "skip"}
     /\ request = Idle
     /\ last.exc \in Failures \cup {NoExc})
    => response = "ok"

\* C9: every entry of a batch is handled in order; an entry that is a
\* payment transaction is fetched and reconciled, any other entry changes
\* nothing; after the last entry the request is answered "ok".
C9_OnlyPaymentTransactions ==
    [][(EntryStep /\ payment.info # EmptyInfo /\ last'.exc \notin {"KeyError", "ValueError"})
       => /\ request' = Tail(request)
          /\ IF Head(request).object = "payment.transactions"
             THEN last'.op = "update" /\ last'.transaction # None /\ last'.exc = NoExc
             ELSE last'.op = "skip" /\ UNCHANGED <<payment, refunds, order_status>>
          /\ Tail(request) = <<>> => response' = "ok"]_vars

\* C10: a webhook delivery with PENDING moves a created payment to pending,
\* and once it has, a delivery with ACCEPTED leaves the payment confirmed.
C10_PendingThenAccepted ==
    [][/\ (/\ EntryStep
           /\ payment.state = PAYMENT_STATE_CREATED
           /\ payment.info # EmptyInfo
           /\ Fetched(PENDING))
          => (payment'.state = PAYMENT_STATE_PENDING /\ PENDING \in applied')
       /\ (EntryStep /\ PENDING \in applied /\ Fetched(ACCEPTED))
          => payment'.state = PAYMENT_STATE_CONFIRMED]_vars

C10_Witness ==
    /\ PENDING \in applied
    /\ last.op = "update"
    /\ last.pre_state = PAYMENT_STATE_PENDING
    /\ last.transaction # None
    /\ last.transaction.details.status_simple = ACCEPTED
    /\ payment.state = PAYMENT_STATE_CONFIRMED

(***************************************************************************)
(* Properties of the return view and of dispatch.                          *)
(***************************************************************************)
\* the step is a request to the return URL that reaches ReturnView.get
ReturnStep == request = Idle /\ last'.op = "return"

\* a fetch of the return handler failed
FetchFailed(step) ==
    /\ step.calls # <<>>
    /\ \/ step.smart = None
       \/ step.smart.transactions # <<>> /\ step.transaction = None

\* the return handler fetched what it asked the gateway for
FetchesSucceeded(step) == step.calls # <<>> /\ ~FetchFailed(step)

\* C11: a return request for a payment that is not in state created, with
\* whatever action, fetches nothing from the gateway and leaves the payment
\* row, its snapshot, the refunds and the order as they are.
C11_ReplayNoEffect ==
    [][(ReturnStep /\ payment.state # PAYMENT_STATE_CREATED)
       => /\ last'.calls = <<>>
          /\ last'.effects = <<>>
          /\ UNCHANGED <<payment, refunds, order_status>>]_vars

C11_Witness ==
    /\ last.op = "return"
    /\ last.action = "abort"
    /\ last.pre_state = PAYMENT_STATE_CONFIRMED
    /\ last.calls = <<>>
    /\ payment.state = PAYMENT_STATE_CONFIRMED
    /\ payment.info.smart_transaction.status = "ok"

\* C12: for a created payment and successful fetches the return handler
\* confirms on success/"ok" (no exception leaves it), sets pending on
\* success/"pending", fails on success with another status and on fail
\* with any status, and sets canceled on abort.
C12_ReturnMapping ==
    [][(/\ ReturnStep
        /\ payment.state = PAYMENT_STATE_CREATED
        /\ payment.info # EmptyInfo
        /\ FetchesSucceeded(last'))
       => LET action == last'.action
              status == last'.smart.status
          IN /\ last'.exc = NoExc
             /\ (action = "success" /\ status = "ok")
                => /\ last'.effects = <<"confirm">>
                   /\ payment'.state = PAYMENT_STATE_CONFIRMED
             /\ (action = "success" /\ status = "pending")
                => /\ last'.effects = <<"markPending">>
                   /\ payment'.state = PAYMENT_STATE_PENDING
             /\ (action = "success" /\ status \notin {"ok", "pending"})
                => /\ last'.effects = <<"fail">>
                   /\ payment'.state = PAYMENT_STATE_FAILED
             /\ action = "fail"
                => /\ last'.effects = <<"fail">>
                   /\ payment'.state = PAYMENT_STATE_FAILED
             /\ action = "abort"
                => /\ last'.effects = <<"cancel">>
                   /\ payment'.state = PAYMENT_STATE_CANCELED]_vars

C12_Witness ==
    /\ last.op = "return"
    /\ last.pre_state = PAYMENT_STATE_CREATED
    /\ last.action = "success"
    /\ last.smart # None
    /\ last.smart.status = "failed"
    /\ last.transaction # None
    /\ payment.state = PAYMENT_STATE_FAILED

\* C13 as stated: when a fetch of the return handler fails nothing stored
\* changes, an error message is shown and the request is redirected to the
\* order page.
C13_FetchFailureRedirectsToOrder ==
    [][(ReturnStep /\ FetchFailed(last'))
       => /\ UNCHANGED <<payment, refunds, order_status>>
          /\ last'.message
          /\ response' = "redirect"
          /\ last'.target = "presale:event.order"]_vars

\* C13: when a fetch of the return handler fails nothing stored changes, an
\* error message is shown and the request ends with the terminal redirect:
\* to the order page when the session holds the order's secret, to the
\* event index otherwise.
C13_FetchFailureNoChange ==
    [][(ReturnStep /\ FetchFailed(last'))
       => /\ UNCHANGED <<payment, refunds, order_status>>
          /\ last'.effects = <<>>
          /\ last'.message
          /\ response' = "redirect"
          /\ last'.target = IF last'.marker = OrderSecret
                            THEN "presale:event.order" ELSE "presale:event.index"]_vars

C13_Witness ==
    /\ last.op = "return"
    /\ last.action = "success"
    /\ last.calls = <<"fetch_smart_transaction_info", "fetch_payment_transaction_info">>
    /\ last.smart # None
    /\ last.transaction = None
    /\ last.message
    /\ last.target = "presale:event.order"
    /\ payment.state = PAYMENT_STATE_CREATED

\* C14: a return request that passes the hash check ends in a redirect, to
\* the order page exactly when the session's marker is the order's secret
\* and otherwise to the event index with an error message.
C14_AlwaysRedirects ==
    last.op = "return"
    => /\ response = "redirect"
       /\ last.target = "presale:event.order" <=> last.marker = OrderSecret
       /\ last.target # "presale:event.order"
          => (last.target = "presale:event.index" /\ last.message)

\* C15 as stated: a return with action success for a created payment whose
\* smart transaction has status "ok" leaves the payment confirmed and
\* redirects to the order page with the paid marker.
C15_SuccessRedirectsPaid ==
    [][(/\ ReturnStep
        /\ payment.state = PAYMENT_STATE_CREATED
        /\ FetchesSucceeded(last')
        /\ last'.action = "success"
        /\ last'.smart.status = "ok")
       => /\ payment'.state = PAYMENT_STATE_CONFIRMED
          /\ last'.target = "presale:event.order"
          /\ last'.paid]_vars

\* C15: a return with action success for a created payment whose smart
\* transaction has status "ok" leaves the payment confirmed; the redirect
\* goes to the order page when the session holds the order's secret (to the
\* event index otherwise) and carries the paid marker exactly when the
\* order is paid, which it is unless its quota was exceeded.
C15_SuccessConfirms ==
    [][(/\ ReturnStep
        /\ payment.state = PAYMENT_STATE_CREATED
        /\ FetchesSucceeded(last')
        /\ last'.action = "success"
        /\ last'.smart.status = "ok")
       => /\ payment'.state = PAYMENT_STATE_CONFIRMED
          /\ IF last'.marker = OrderSecret
             THEN /\ last'.target = "presale:event.order"
                  /\ last'.paid <=> order_status' = STATUS_PAID
             ELSE /\ last'.target = "presale:event.index"
                  /\ ~last'.paid]_vars

C15_Witness ==
    /\ last.op = "return"
    /\ last.pre_state = PAYMENT_STATE_CREATED
    /\ last.action = "success"
    /\ last.smart # None
    /\ last.smart.status = "ok"
    /\ payment.state = PAYMENT_STATE_CONFIRMED
    /\ order_status = STATUS_PAID
    /\ last.target = "presale:event.order"
    /\ last.paid

\* the step begins a request to one of the two endpoints
RequestStep == request = Idle /\ last'.op \in {"dispatch", "return", "post"}

\* what follows a not-found answer of dispatch
NothingHappens ==
    /\ response' = "not found"
    /\ last'.effects = <<>>
    /\ last'.transaction = None
    /\ request' = Idle
    /\ UNCHANGED <<payment, refunds, order_status>>

\* C16 as stated: a request to either endpoint whose path hash differs
\* from the hex digest of the lowercased order secret, or whose order does
\* not exist, is answered not-found and nothing else happens.
C16_HashMismatchNotFound ==
    [][(/\ RequestStep
        /\ \/ last'.op = "dispatch" /\ ~last'.order_exists
           \/ last'.hash # sha1_hexdigest(lower(OrderSecret)))
       => (last'.op = "dispatch" /\ NothingHappens)]_vars

\* C16: a request to either endpoint whose order does not exist, or whose
\* path hash, lowercased, differs from the hex digest of the lowercased
\* order secret, is answered not-found and nothing else happens; every
\* other request reaches its handler.
C16_DispatchNotFound ==
    [][RequestStep
       => /\ last'.op = "dispatch"
             <=> \/ last'.op = "dispatch" /\ ~last'.order_exists
                 \/ lower(last'.hash) # sha1_hexdigest(lower(OrderSecret))
          /\ last'.op = "dispatch" => NothingHappens]_vars

C16_Witness ==
    /\ last.op = "dispatch"
    /\ last.endpoint = "webhook"
    /\ last.order_exists
    /\ last.hash = _return_url_hash(OtherSecret)
    /\ response = "not found"
    /\ payment.state = PAYMENT_STATE_CONFIRMED

\* the customer map of a stored transaction is redacted
Redacted(transaction) ==
    "customer" \in DOMAIN transaction
    => \A k \in DOMAIN transaction.customer \ {"id", "object"} :
          transaction.customer[k] = RedactionMarker

\* the transactions stored in the info of the payment and of its refunds
StoredTransactions ==
    (IF payment.info = EmptyInfo
     THEN {}
     ELSE {payment.info.smart_transaction} \cup ({payment.info.payment_transaction} \ {None}))
    \cup {r.info : r \in BagToSet(refunds)}

\* C17: every transaction stored in the info of the payment or of one of
\* its refunds has every key of its customer map but id and object replaced
\* by the redaction marker.
C17_StoredCustomersRedacted == \A t \in StoredTransactions : Redacted(t)

C17_Witness ==
    /\ payment.info # EmptyInfo
    /\ payment.info.payment_transaction # None
    /\ payment.info.payment_transaction.customer.email = RedactionMarker
    /\ payment.info.smart_transaction.customer.forename = RedactionMarker
    /\ \E r \in BagToSet(refunds) :
          /\ "state" \in DOMAIN r
          /\ r.state = "done"
          /\ r.info # EmptyInfo
          /\ r.info.customer.email = RedactionMarker
    /\ \E r \in BagToSet(refunds) :
          /\ "state" \notin DOMAIN r
          /\ r.info.id = CTX
          /\ r.info.customer.email = RedactionMarker

(***************************************************************************)
(* C18: the redaction as a function.                                       *)
(***************************************************************************)
\* the first application to the argument
ScrubStep == ret = NotCalled /\ ret' # NotCalled
\* the application to an object that was scrubbed before
ScrubAgainStep == ret # NotCalled /\ arg' = ret.val

\* C18: for a transaction object with a customer map the result has the same
\* keys, the customer has the same keys, the values of id and object are
\* kept, every other value of the customer is the redaction marker and the
\* rest of the object is as it was; scrubbing a scrubbed object returns it
\* unchanged; an object without customer or with a customer that is no map,
\* and a value that is no object, is returned unchanged.  No call fails.
C18_ScrubRedactsAndIsIdempotent ==
    [][/\ ScrubStep \/ ScrubAgainStep => ret'.ok
       /\ ScrubStep /\ is_dict(arg) /\ "customer" \in DOMAIN arg /\ is_dict(arg.customer)
          => /\ DOMAIN ret'.val = DOMAIN arg
             /\ \A f \in DOMAIN arg \ {"customer"} : ret'.val[f] = arg[f]
             /\ DOMAIN ret'.val.customer = DOMAIN arg.customer
             /\ \A k \in DOMAIN arg.customer :
                   ret'.val.customer[k] = IF k \in {"id", "object"}
                                          THEN arg.customer[k]
                                          ELSE RedactionMarker
       /\ ScrubStep /\ ~(is_dict(arg) /\ "customer" \in DOMAIN arg /\ is_dict(arg.customer))
          => ret'.val = arg
       /\ ScrubAgainStep => ret'.val = ret.val]_vars

\* a customer with id, object and personal data was scrubbed, and the
\* scrubbed object was scrubbed once more
C18_Witness ==
    /\ ret # NotCalled
    /\ ret.ok
    /\ is_dict(arg)
    /\ "customer" \in DOMAIN arg
    /\ is_dict(arg.customer)
    /\ {"id", "object", "forename", "email"} \subseteq DOMAIN arg.customer
    /\ arg.customer.email = RedactionMarker
    /\ arg.customer.id = "PCU_1"
    /\ ret.val = arg

(***************************************************************************)
(* C19: the outcomes of an authenticated request.                          *)
(***************************************************************************)
\* a request was made with a token: the last request sent is the API request
AuthenticatedStep ==
    /\ arg' # None
    /\ "answer" \in DOMAIN arg'
    /\ ret'.sent # <<>>
    /\ ret'.sent[Len(ret'.sent)].endpoint = arg'.endpoint

\* the answer is a response with a status of 400 to 599
NonSuccess(answer) == answer.ok /\ answer.val.status_code >= 400

\* the body is a JSON object with status "error" and an error_details field
IsErrorObject(body) ==
    /\ body # NotJson
    /\ is_dict(body)
    /\ "status" \in DOMAIN body
    /\ body.status = "error"
    /\ "error_details" \in DOMAIN body

\* C19: an authenticated request that ends in a non-2xx response whose body
\* is an error object raises the gateway exception with that object; a
\* request without a response raises the transport error of the sending; a
\* non-2xx response with any other body raises the HTTP error of the
\* response; a 2xx response with a JSON body returns the parsed body.
C19_RequestOutcomes ==
    [][AuthenticatedStep =>
         LET answer == arg'.answer IN
         /\ NonSuccess(answer) /\ IsErrorObject(answer.val.body)
            => ret'.result = SecuconnectException(answer.val.body)
         /\ ~answer.ok => ret'.result = Raise(answer.exc)
         /\ NonSuccess(answer) /\ ~IsErrorObject(answer.val.body)
            => ret'.result = Raise("HTTPError")
         /\ answer.ok /\ ~NonSuccess(answer) /\ answer.val.body # NotJson
            => ret'.result = Ok(answer.val.body)]_vars

(***************************************************************************)
(* C20: the token.                                                         *)
(***************************************************************************)
TokenStep == arg' # None /\ "answer" \notin DOMAIN arg' /\ "exchange" \in DOMAIN arg'

\* the token the cache holds, if it holds one
HeldToken(entries) == {entry \in entries : entry.key = TokenKey /\ entry.value # ""}

\* the exchange gives a token: a 2xx response whose body is a JSON object
\* with access_token and expires_in
GivesToken(exchange) ==
    /\ exchange.ok
    /\ exchange.val.status_code < 400
    /\ exchange.val.body # NotJson
    /\ is_dict(exchange.val.body)
    /\ {"access_token", "expires_in"} \subseteq DOMAIN exchange.val.body

\* C20: with a token in the cache the call returns it, sends nothing and
\* leaves the cache as it is; without one it sends exactly one
\* client-credentials request, and then either the exchange gives a token,
\* which is returned and is what the cache holds under the key afterwards,
\* with expires_in as timeout and every other entry kept, or the call raises
\* and the cache is left as it is.
C20_TokenCachedOrExchanged ==
    [][TokenStep =>
         LET exchange == arg'.exchange IN
         /\ HeldToken(cache) # {}
            => /\ \A entry \in HeldToken(cache) : ret'.result = Ok(entry.value)
               /\ ret'.sent = <<>>
               /\ cache' = cache
         /\ HeldToken(cache) = {}
            => /\ ret'.sent = <<TokenRequest>>
               /\ GivesToken(exchange)
                  => /\ ret'.result = Ok(exchange.val.body.access_token)
                     /\ {entry \in cache' : entry.key = TokenKey}
                          = {[key |-> TokenKey, value |-> exchange.val.body.access_token,
                              timeout |-> exchange.val.body.expires_in]}
                     /\ {entry \in cache' : entry.key # TokenKey}
                          = {entry \in cache : entry.key # TokenKey}
               /\ ~GivesToken(exchange)
                  => /\ ~ret'.result.ok
                     /\ cache' = cache]_vars

\* a token stored by an earlier exchange with a timeout of 60 was returned
\* by a call that sent nothing
C20_Witness ==
    /\ ret # NotCalled
    /\ "result" \in DOMAIN ret
    /\ ret.sent = <<>>
    /\ ret.result = Ok("tok_2")
    /\ cache = {[key |-> TokenKey, value |-> "tok_2", timeout |-> 60]}

(***************************************************************************)
(* C21: the link execute_payment returns.                                  *)
(***************************************************************************)
\* the step is the start of the payment, answered by the gateway
StartAnswered ==
    /\ payment.info = EmptyInfo
    /\ last'.op = "execute_payment"
    /\ "started" \in DOMAIN last'
    /\ last'.started.ok

\* the answer holds a map of payment links
HasLinks(data) == "payment_links" \in DOMAIN data /\ is_dict(data.payment_links)

\* the answer holds a link for the method
HasLink(data, method) == HasLinks(data) /\ method \in DOMAIN data.payment_links

TableRow(status, state) ==
    CASE status = ACCEPTED -> "confirm"
      [] status = PENDING /\ state = PAYMENT_STATE_CREATED -> "markPending"
      [] status = DENIED /\ state \in {PAYMENT_STATE_CREATED, PAYMENT_STATE_PENDING} -> "fail"
      [] status \in {ISSUE, REFUND, VOID} /\ state = PAYMENT_STATE_CONFIRMED -> "check"
      [] OTHER -> "none"

\* the step handles the delivery of a status that differs from the stored
\* one, for a started payment
NewStatusStep ==
    /\ EntryStep
    /\ payment.info # EmptyInfo
    /\ last'.op = "update"
    /\ last'.transaction # None
    /\ StoredStatus # <<last'.transaction.details.status_simple>>

\* C22: for every status code, known or not, delivered for a local state
\* for which the table has no row, the handler does not raise (but for a
\* failure of a gateway call of the related-transaction scan), leaves the
\* state of the payment, stores the fetched snapshot and creates no refund
\* from the status.
C22_UnexpectedNeverRaises ==
    [][(/\ NewStatusStep
        /\ TableRow(last'.transaction.details.status_simple, payment.state) = "none")
       => /\ last'.exc \in {NoExc} \cup Failures
          /\ payment'.state = payment.state
          /\ payment'.info.payment_transaction = last'.transaction
          /\ Count(last'.effects, "createRefund") = 0]_vars

\* the codes of the fetched and of the stored transaction are codes of the
\* enumeration
KnownStatuses ==
    /\ last'.transaction.details.status_simple \in PaymentStatusSimple
    /\ \A i \in 1..Len(StoredStatus) : StoredStatus[i] \in PaymentStatusSimple

\* C23: for every status of the enumeration that differs from the stored
\* one and every local state the handler does what the row of the table
\* says: ACCEPTED calls confirm and leaves the payment confirmed, PENDING
\* stores state pending for a created payment, DENIED fails a created or
\* pending payment, ISSUE, REFUND and VOID ask the gateway for the remaining
\* amount of a confirmed payment and leave its state; for every other pair
\* the state is left, the remaining amount is not asked for and no status
\* action is applied.
C23_DispatchIsTable ==
    [][(NewStatusStep /\ KnownStatuses)
       => LET row == TableRow(last'.transaction.details.status_simple, payment.state) IN
          /\ row = "confirm"
             => /\ Count(last'.effects, "confirm") = 1
                /\ payment'.state = PAYMENT_STATE_CONFIRMED
          /\ row = "markPending"
             => /\ Count(last'.effects, "markPending") = 1
                /\ payment'.state = PAYMENT_STATE_PENDING
          /\ row = "fail"
             => /\ Count(last'.effects, "fail") = 1
                /\ payment'.state = PAYMENT_STATE_FAILED
          /\ row = "check"
             => /\ last'.check # NotCalled
                /\ payment'.state = payment.state
          /\ row # "check" => last'.check = NotCalled
          /\ row = "none"
             => /\ payment'.state = payment.state
                /\ \A e \in StatusActions : Count(last'.effects, e) = 0]_vars

\* REFUND was delivered for a confirmed payment and the remaining amount was
\* asked for
C23_Witness ==
    /\ last.op = "update"
    /\ last.exc = NoExc
    /\ last.pre_state = PAYMENT_STATE_CONFIRMED
    /\ last.transaction # None
    /\ last.transaction.details.status_simple = REFUND
    /\ last.check # NotCalled
    /\ last.check.ok
    /\ payment.state = PAYMENT_STATE_CONFIRMED

(***************************************************************************)
(* C24 and C25: the related-transaction scan.                              *)
(***************************************************************************)
\* the step handles the delivery of the status that is stored already
SameStatusStep ==
    /\ EntryStep
    /\ payment.info # EmptyInfo
    /\ last'.op = "update"
    /\ last'.transaction # None
    /\ StoredStatus = <<last'.transaction.details.status_simple>>

\* the ids the refunds of the payment store
KnownRefundIds == {RefundInfoId(r) : r \in BagToSet(refunds)}

\* the child transactions the fetched transaction lists
ListedChildren(transaction) ==
    {transaction.related_transactions[i].id :
        i \in {j \in 1..Len(transaction.related_transactions) :
                  /\ transaction.related_transactions[j].object = "payment.transactions"
                  /\ transaction.related_transactions[j].hierarchy = "child"}}

\* C24: a delivery whose fetched status is the stored one changes neither
\* the payment nor the order, does not ask for the remaining amount and
\* applies no status action; the scan still runs: with a listed child that
\* no refund stores, and no failure of the fetch of the child, there is one
\* more refund afterwards, of abs(amount) of the child and storing its id,
\* and without such a child the refunds are left.
C24_SameStatusStillScans ==
    [][(SameStatusStep /\ KnownStatuses)
       => /\ payment' = payment
          /\ order_status' = order_status
          /\ last'.check = NotCalled
          /\ \A e \in StatusActions : Count(last'.effects, e) = 0
          /\ IF ListedChildren(last'.transaction) \subseteq KnownRefundIds
             THEN refunds' = refunds /\ last'.exc = NoExc
             ELSE last'.exc = NoExc
                  => /\ BagCardinality(refunds') = BagCardinality(refunds) + 1
                     /\ \E r \in BagToSet(refunds') :
                           /\ RefundInfoId(r) = CTX
                           /\ r.amount = abs(ChildAmount)
                           /\ CopiesIn(r, refunds') = CopiesIn(r, refunds) + 1]_vars

\* the status that was stored was delivered again, now with a child, and
\* the refund of the child was created
C24_Witness ==
    /\ last.op = "update"
    /\ last.exc = NoExc
    /\ last.transaction # None
    /\ ~last.acted
    /\ last.effects = <<"createRelatedRefund">>
    /\ payment.info # EmptyInfo
    /\ payment.info.payment_transaction # None
    /\ payment.info.payment_transaction.details.status_simple
          = last.transaction.details.status_simple
    /\ payment.info.payment_transaction.related_transactions = <<>>
    /\ \E r \in BagToSet(refunds) : RefundInfoId(r) = CTX

\* the refunds that store the id
RefundsStoring(id) ==
    BagCardinality([r \in {x \in BagToSet(refunds) : RefundInfoId(x) = id} |->
                       CopiesIn(r, refunds)])

\* the entries of the list that are child payment transactions
ChildEntries(related) ==
    {i \in 1..Len(related) :
        related[i].object = "payment.transactions" /\ related[i].hierarchy = "child"}

RefundCalled ==
    /\ request = Idle
    /\ last'.op = "execute_refund"
    /\ payment.info # EmptyInfo
    /\ payment.info.payment_transaction # None

\* the rows of refunds the step has added
AddedRefunds ==
    {r \in BagToSet(refunds') : CopiesIn(r, refunds') = CopiesIn(r, refunds) + 1}

\* C26: when the cancel call fails with the exception of the gateway, the
\* refund carries the error object of the exception as its info and is not
\* done, the payment is as it was and a payment error is raised; the refund
\* is done only when the cancel call has succeeded.
C26_RefundErrorAttached ==
    [][RefundCalled =>
         /\ Cardinality(AddedRefunds) = 1
         /\ (~last'.cancel.ok /\ last'.cancel.exc = "SecuconnectException")
            => /\ \A r \in AddedRefunds :
                     r.info = last'.cancel.error_object /\ r.state # "done"
               /\ payment' = payment
               /\ last'.exc = "PaymentException"
         /\ (\E r \in AddedRefunds : r.state = "done") => last'.cancel.ok]_vars

\* a refund has failed with the error of the gateway and carries its object
C26_Witness ==
    /\ last.op = "execute_refund"
    /\ last.cancel = SecuconnectException(ErrorObject)
    /\ last.exc = "PaymentException"
    /\ response = "PaymentException"
    /\ \E r \in BagToSet(refunds) :
          "state" \in DOMAIN r /\ r.state = "created" /\ r.info = ErrorObject

(***************************************************************************)
(* C27: execute_payment and the failure of the start.                      *)
(***************************************************************************)
\* the step is the start of a payment
StartStep ==
    /\ payment.info = EmptyInfo
    /\ last'.op = "execute_payment"
    /\ "started" \in DOMAIN last'

\* C27: when the call that starts the smart transaction fails, with the
\* transport's exception or with the gateway's, the payment is failed, its
\* info stays empty, the session's order secret is left, and the payment
\* error with the message of the trouble communicating is raised; the info
\* is written, as the scrubbed smart transaction and no payment
\* transaction, and the session's order secret set only when the call has
\* succeeded.
C27_StartFailureFailsPayment ==
    [][StartStep =>
         /\ ~last'.started.ok
            => /\ last'.started.exc \in Failures
               /\ payment'.state = PAYMENT_STATE_FAILED
               /\ payment'.info = EmptyInfo
               /\ session' = session
               /\ last'.exc = "PaymentException"
               /\ last'.message = TroubleMessage
               /\ last'.url = None
         /\ (payment'.info # EmptyInfo \/ session' # session)
            => /\ last'.started.ok
               /\ DOMAIN payment'.info = {"smart_transaction", "payment_transaction"}
               /\ payment'.info.payment_transaction = None
               /\ payment'.info.smart_transaction.id = last'.started.val.id
               /\ Redacted(payment'.info.smart_transaction)
               /\ session' = OrderSecret]_vars

\* the start has failed with the exception of the gateway: the payment is
\* failed with empty info and the session holds no order secret
C27_Witness ==
    /\ last.op = "execute_payment"
    /\ "started" \in DOMAIN last
    /\ last.started = Raise("SecuconnectException")
    /\ last.exc = "PaymentException"
    /\ last.message = TroubleMessage
    /\ payment = [state |-> PAYMENT_STATE_FAILED, info |-> EmptyInfo]
    /\ session = NoMarker

(***************************************************************************)
(* C28: a delivered ACCEPTED and the confirmation of the payment.          *)
(***************************************************************************)
\* the machine whose webhook handler, once it has begun a batch, goes on to
\* the end of it (views.py 180-188)
SpecLive == Init /\ [][Next]_vars /\ WF_vars(WebhookEntry({}))

\* the entry handled last was a notification whose transaction was fetched
\* with status ACCEPTED and handled without an exception
AcceptedDelivered ==
    /\ last.op = "update"
    /\ last.exc = NoExc
    /\ last.transaction # None
    /\ last.transaction.details.status_simple = ACCEPTED

\* C28: once a notification of the payment's transaction was delivered and
\* the transaction fetched with status ACCEPTED, the payment is eventually
\* confirmed, whatever returns and deliveries were handled before.
C28_AcceptedEventuallyConfirmed ==
    AcceptedDelivered ~> (payment.state = PAYMENT_STATE_CONFIRMED)

(***************************************************************************)
(* C29: a confirmed payment stays confirmed.                               *)
(***************************************************************************)
\* C29: when returns and webhook deliveries are handled one after another,
\* no handler changes the state of a confirmed payment: it is never set to
\* pending, failed or canceled.
C29_ConfirmedStaysConfirmed ==
    [][payment.state = PAYMENT_STATE_CONFIRMED
         => payment'.state = PAYMENT_STATE_CONFIRMED]_vars

\* a notification with status DENIED was handled for a confirmed payment,
\* which is confirmed still
C29_Witness ==
    /\ last.op = "update"
    /\ last.exc = NoExc
    /\ last.pre_state = PAYMENT_STATE_CONFIRMED
    /\ last.transaction # None
    /\ last.transaction.details.status_simple = DENIED
    /\ payment.state = PAYMENT_STATE_CONFIRMED
    /\ payment.info.payment_transaction = last.transaction

(***************************************************************************)
(* C30: a return and a webhook delivery handled at once.                   *)
(***************************************************************************)
\* the return handler writes, having loaded the payment in state created
StaleReturnWrite ==
    /\ procs[Returning].pc = "returning"
    /\ procs[Returning].pay.state = PAYMENT_STATE_CREATED
    /\ procs'[Returning].pc = "idle"

\* C30: a payment confirmed by a webhook delivery while a return was being
\* handled is not written back to canceled, failed or pending by the return
\* handler that had loaded it in state created.
C30_ReturnKeepsConfirmation ==
    [][(StaleReturnWrite /\ payment.state = PAYMENT_STATE_CONFIRMED)
         => payment'.state \notin {PAYMENT_STATE_CANCELED, PAYMENT_STATE_FAILED,
                                    PAYMENT_STATE_PENDING}]_vars

(***************************************************************************)
(* C31: the refunds the webhook handler records and the amount refunded    *)
(* at the gateway.                                                         *)
(***************************************************************************)
\* the sum of the amounts of the refund rows
RECURSIVE RefundedAmount(_)
RefundedAmount(rows) ==
    IF rows = EmptyBag
    THEN 0
    ELSE LET r == CHOOSE x \in BagToSet(rows) : TRUE IN
         r.amount + RefundedAmount(rows (-) SetToBag({r}))

\* a notification was handled in which checkStatus reported the remaining
\* amount
RemainingReported ==
    /\ last'.op = "update"
    /\ last'.check.ok

\* C31: after a webhook delivery in which the gateway has reported the
\* remaining amount, the amounts of the refunds recorded for the payment sum
\* to no more than the authorized amount less the remaining amount.
C31_RefundsWithinReduction ==
    [][RemainingReported
         => RefundedAmount(refunds') <= Amount - last'.check.val.amount]_vars

(***************************************************************************)
(* C32: a refund executed by the host and the notifications that follow.   *)
(***************************************************************************)
\* the only refund of the payment is the one the host has executed, and
\* the gateway has answered the cancel call with the child transaction
LocallyRefunded ==
    /\ BagCardinality(refunds) = 1
    /\ \E r \in BagToSet(refunds) :
          /\ "state" \in DOMAIN r
          /\ r.state = "done"
          /\ RefundInfoId(r) = CTX

\* C32: while the refund the host has executed through execute_refund is
\* the only refund of the payment, no webhook delivery, whether it reports
\* the changed status with the reduced remaining amount or lists the child
\* transaction, records a further refund.
C32_LocalRefundNotRecordedAgain ==
    [][(LocallyRefunded /\ last'.op = "update") => refunds' = refunds]_vars

(***************************************************************************)
(* C33: the transaction of the stored snapshot.                            *)
(***************************************************************************)
\* C33: whenever the stored snapshot holds a payment transaction, it is the
\* payment's own payment transaction: a notification that names another
\* transaction, such as the child transaction of a refund, does not replace
\* it.
C33_SnapshotIsOwnTransaction ==
    (payment.info # EmptyInfo /\ payment.info.payment_transaction # None)
        => payment.info.payment_transaction.id = PTX

====
